---- MODULE Spec2Model ----
(***************************************************************************)
(* Model of the chat backend: the WebSocket round loop (chat_socket), the  *)
(* streaming orchestrator (stream_chat_with_tools) and the session store   *)
(* (push_message / get_history / trim_history / clear_history).            *)
(*                                                                         *)
(* Text is a sequence of characters, so that concatenation and strip() are *)
(* computed rather than assumed.  One action is one run of the code from   *)
(* one suspension point (await / yield) to the next.                       *)
(***************************************************************************)
EXTENDS Integers, Sequences, FiniteSets, TLC

(* ------------------------------ bounds --------------------------------- *)
MaxRounds == 2
MaxChunks == 2
MaxFaults == 1
MaxAppends == 52

(* ----------------------------- constants ------------------------------- *)
MAX_MESSAGES == 50

Conns == {"c1", "c2"}
Visitors == {"A", "B"}
KnownTools == {"book_meeting", "save_lead", "notify_team"}

(* ------------------------------- text ---------------------------------- *)
IsSpace(ch) == ch = " "

RECURSIVE LStrip(_)
LStrip(s) == IF s # <<>> /\ IsSpace(Head(s)) THEN LStrip(Tail(s)) ELSE s

RECURSIVE RStrip(_)
RStrip(s) ==
    IF s # <<>> /\ IsSpace(s[Len(s)]) THEN RStrip(SubSeq(s, 1, Len(s) - 1)) ELSE s

\* str.strip(): leading and trailing whitespace removed
Strip(s) == RStrip(LStrip(s))

\* "".join(parts)
RECURSIVE Join(_)
Join(parts) == IF parts = <<>> THEN <<>> ELSE Head(parts) \o Join(Tail(parts))

\* a plausible slip: the text is joined but not stripped
FinalTextRaw(parts) == Join(parts)

\* final_text = "".join(collected_text).strip()
FinalText(parts) == Strip(Join(parts))

(* ------------------------ provider stream chunks ----------------------- *)
\* one tool-call delta: positional index, optional id, optional name,
\* optional partial argument text ("" / <<>> stands for absent)
Delta(i, id, nm, ar) == [index |-> i, id |-> id, name |-> nm, arguments |-> ar]

\* one streamed chunk; choices = FALSE is a chunk with an empty choices list
Chunk(ch, c, tcs, fr) ==
    [choices |-> ch, content |-> c, tool_calls |-> tcs, finish_reason |-> fr]

NoChoices == Chunk(FALSE, <<>>, <<>>, "none")

\* the chunks the provider may send: text only, tool-call deltas (one leaves an
\* unnamed slot 0 and carries unparseable arguments), a delta next to text,
\* and chunks carrying a finish reason
Chunks ==
    { NoChoices,
      Chunk(TRUE, <<" ">>, <<>>, "none"),
      Chunk(TRUE, <<>>, <<Delta(1, "id1", "save_lead", <<"{">>)>>, "none"),
      Chunk(TRUE, <<"a">>, <<Delta(0, "id0", "notify_team", <<"{", "}">>)>>, "none"),
      Chunk(TRUE, <<"a">>, <<>>, "stop"),
      Chunk(TRUE, <<>>, <<Delta(2, "", "bogus", <<>>)>>, "tool_calls"),
      Chunk(TRUE, <<>>, <<>>, "length") }

\* a plausible slip: only "stop" ends the loop
IsFinishStopOnly(fr) == fr = "stop"

\* finish_reason == "stop" or finish_reason == "tool_calls"
IsFinish(fr) == fr = "stop" \/ fr = "tool_calls"

\* a plausible slip: a "tool_calls" finish goes straight to the dispatch loop
AfterChunkEager(fr) ==
    IF fr = "tool_calls" THEN "dispatch" ELSE IF fr = "stop" THEN "finalize" ELSE "stream"

\* where the loop goes after a chunk: break on a finish signal, else next chunk
AfterChunk(fr) == IF IsFinish(fr) THEN "finalize" ELSE "stream"

(* ------------------------ tool-call accumulator ------------------------ *)
EmptySlot == [id |-> "", name |-> "", arguments |-> <<>>]

\* while len(tool_calls_data) <= idx: append an empty slot
RECURSIVE Grow(_, _)
Grow(tcd, i) == IF Len(tcd) <= i THEN Grow(Append(tcd, EmptySlot), i) ELSE tcd

\* a plausible slip: "=" instead of "+=" on the argument text
MergeDeltaOverwrite(tcd, d) ==
    LET g == Grow(tcd, d.index)
        p == d.index + 1
    IN [g EXCEPT ![p] = [id |-> IF d.id # "" THEN d.id ELSE @.id,
                         name |-> IF d.name # "" THEN d.name ELSE @.name,
                         arguments |-> IF d.arguments # <<>> THEN d.arguments
                                       ELSE @.arguments]]

\* merge of one delta into the accumulator (list positions are index + 1)
MergeDelta(tcd, d) ==
    LET g == Grow(tcd, d.index)
        p == d.index + 1
    IN [g EXCEPT ![p] = [id |-> IF d.id # "" THEN d.id ELSE @.id,
                         name |-> IF d.name # "" THEN d.name ELSE @.name,
                         arguments |-> @.arguments \o d.arguments]]

RECURSIVE MergeAll(_, _)
MergeAll(tcd, ds) ==
    IF ds = <<>> THEN tcd ELSE MergeAll(MergeDelta(tcd, Head(ds)), Tail(ds))

(* --------------------------- argument parsing -------------------------- *)
\* json.loads over a three-symbol alphabet: "{" and "}" are the braces and
\* "e" is one complete member; the text is an object iff it is "{" e* "}"
IsJsonObject(s) ==
    /\ Len(s) >= 2
    /\ s[1] = "{"
    /\ s[Len(s)] = "}"
    /\ \A k \in 2..(Len(s) - 1) : s[k] = "e"

\* the parsed argument mapping, as its set of members; {} on a parse error
ParseArgs(s) == IF IsJsonObject(s) THEN { s[k] : k \in 2..(Len(s) - 1) } ELSE {}

(* ------------------------------- events -------------------------------- *)
Ev(t, nm, d, a, ok) == [type |-> t, name |-> nm, data |-> d, args |-> a, ok |-> ok]
TokenEv(d) == Ev("token", "", d, {}, TRUE)
DoneEv(d) == Ev("done", "", d, {}, TRUE)
ToolEv(nm, a) == Ev("tool", nm, <<>>, a, TRUE)
ToolResultEv(nm, ok) == Ev("tool_result", nm, <<>>, {}, ok)
\* the error event; its text names what was raised: "empty" (no message),
\* "conversation" (the conversation lookup), "log_write" (a commit of a turn
\* to the durable log), "provider" (the provider call or its stream)
ErrorEv(e) == Ev("error", e, <<>>, {}, FALSE)
RoundCompleteEv == Ev("round_complete", "", <<>>, {}, TRUE)

\* a plausible slip: only a successful tool reports its result
ResultEventsOnSuccess(nm, ok) == IF ok THEN <<ToolResultEv(nm, ok)>> ELSE <<>>

\* yield {"type": "tool_result", ...} after every executed tool
ResultEvents(nm, ok) == <<ToolResultEv(nm, ok)>>

(* ---------------------------- session store ---------------------------- *)
Turn(role, content) == [role |-> role, content |-> content]

\* Redis key TTL (24 hours)
HISTORY_TTL == 86400

\* outcome of the redis calls and of the durable-store calls of one push_message
RedisOutcomes == {"ok", "fail"}
DbOutcomes == {"ok", "down"}

HasConv(S, v) == \E i \in 1..Len(S.conversations) : S.conversations[i] = v

\* a plausible slip: the first conversation, whoever it belongs to
ConvOfAnyone(S, v) == 1

\* query(Conversation).filter(visitor_id == v).first()
ConvOf(S, v) ==
    CHOOSE i \in 1..Len(S.conversations) :
        /\ S.conversations[i] = v
        /\ \A j \in 1..(i - 1) : S.conversations[j] # v

\* push_message: rpush, expire, then the mirror into the durable log; every
\* exception is swallowed, and a redis exception skips what follows it: ro is
\* "fail" when rpush raises and "expire" when rpush returns and expire raises
PushMessage(S, v, role, content, ro, do) ==
    IF ro = "fail" THEN S
    ELSE IF ro = "expire" THEN [S EXCEPT !.cache[v] = Append(@, Turn(role, content))]
    ELSE LET S1 == [S EXCEPT !.cache[v] = Append(@, Turn(role, content)),
                             !.expiry[v] = <<HISTORY_TTL>>] IN
         IF do # "ok" THEN S1
         ELSE LET S2 == IF HasConv(S1, v) THEN S1
                        ELSE [S1 EXCEPT !.conversations = Append(@, v)]
              IN [S2 EXCEPT !.messages =
                      Append(@, [conv |-> ConvOf(S2, v), role |-> role,
                                 content |-> content])]

\* _get_or_create_conversation (its caller has checked that the store is up)
GetOrCreateConversation(S, v) ==
    IF HasConv(S, v) THEN S ELSE [S EXCEPT !.conversations = Append(@, v)]

\* db.add(Message(...)); db.commit()
AddMessage(S, cv, role, content) ==
    [S EXCEPT !.messages = Append(@, [conv |-> cv, role |-> role, content |-> content])]

\* trim_history: keep the last max_messages entries
TrimHistory(h, max_messages) ==
    IF Len(h) > max_messages THEN SubSeq(h, Len(h) - max_messages + 1, Len(h)) ELSE h

(* ------------------------------ tool calls ----------------------------- *)
\* requests of the HTTP chat route that may be in progress at the same time
Requests == {"t1", "t2"}

\* a request that is not inside the save_lead branch
Idle == [at |-> "idle", entry |-> "", data |-> <<>>, lead |-> 0, read |-> <<>>]

\* no call has been made yet
NoCall == [op |-> "none"]

(* ------------------------------ variables ------------------------------ *)
VARIABLES
    pc,              \* per connection: position of chat_socket / the generator
    visitor,         \* per connection: visitor_id of the path
    events,          \* per connection: events sent in the current round
    user_msg,        \* per connection: stripped inbound message of the round
    conversation,    \* per connection: conversation id held by the generator
    prompt,          \* per connection: messages sent to the provider (no system)
    consumed,        \* per connection: chunks pulled from the provider stream
    collected_text,  \* per connection: list of text fragments
    tool_calls_data, \* per connection: fragment accumulator
    pos,             \* per connection: position of the dispatch loop
    args,            \* per connection: parsed arguments of the announced tool
    invoked,         \* per connection: tool handlers invoked in the round
    appended,        \* per connection: turns the round passed to push_message
    mark,            \* per connection: sizes of the stores and faults so far when the round began
    after_failure,   \* per connection: the round began after some round failed
    failed,          \* number of rounds that ended in an unhandled failure
    cache,           \* redis: visitor -> list of turns
    expiry,          \* redis: visitor -> seconds the key has left (None: no expiry set)
    conversations,   \* durable: list of conversations (visitor_id), id = position
    messages,        \* durable: list of messages
    nrounds, nchunks, nfaults, nappends,
    leads,           \* durable: list of Lead rows, id = position
    lead_link,       \* durable: visitor -> lead_id of the visitor's conversation (0: null)
    pending,         \* per request of the HTTP chat route: where it is and its locals
    call             \* the most recent store or tool call: its inputs and what it returned

connVars == <<pc, visitor, events, user_msg, conversation, prompt, consumed,
              collected_text, tool_calls_data, pos, args, invoked, appended,
              mark, after_failure, failed>>
roundVars == <<user_msg, conversation, prompt, consumed, collected_text,
               tool_calls_data, pos, args, invoked, appended>>
storeVars == <<cache, expiry, conversations, messages>>
countVars == <<nrounds, nchunks, nfaults, nappends>>
toolVars == <<leads, lead_link, pending, call>>
vars == <<connVars, storeVars, countVars, toolVars>>

Store ==
    [cache |-> cache, expiry |-> expiry, conversations |-> conversations,
     messages |-> messages]

SetStore(S) ==
    /\ cache' = S.cache
    /\ expiry' = S.expiry
    /\ conversations' = S.conversations
    /\ messages' = S.messages

InitIdle ==
    /\ pc = [c \in Conns |-> "idle"]
    /\ events = [c \in Conns |-> <<>>]
    /\ user_msg = [c \in Conns |-> <<>>]
    /\ conversation = [c \in Conns |-> 0]
    /\ prompt = [c \in Conns |-> <<>>]
    /\ consumed = [c \in Conns |-> <<>>]
    /\ collected_text = [c \in Conns |-> <<>>]
    /\ tool_calls_data = [c \in Conns |-> <<>>]
    /\ pos = [c \in Conns |-> 1]
    /\ args = [c \in Conns |-> {}]
    /\ invoked = [c \in Conns |-> <<>>]
    /\ appended = [c \in Conns |-> <<>>]
    /\ mark = [c \in Conns |-> [cache |-> 0, messages |-> 0, faults |-> 0]]
    /\ after_failure = [c \in Conns |-> FALSE]
    /\ failed = 0
    /\ cache = [v \in Visitors |-> <<>>]
    /\ expiry = [v \in Visitors |-> <<>>]
    /\ conversations = <<>>
    /\ messages = <<>>
    /\ nrounds = 0
    /\ nchunks = 0
    /\ nfaults = 0
    /\ nappends = 0
    /\ leads = <<>>
    /\ lead_link = [v \in Visitors |-> 0]
    /\ pending = [t \in Requests |-> Idle]
    /\ call = NoCall

\* each channel was opened for a visitor of its own
Init == InitIdle /\ visitor = [c \in Conns |-> IF c = "c1" THEN "A" ELSE "B"]

(* ------------------------------- faults -------------------------------- *)
\* store outcomes of the calls made while a message is received and the
\* generator runs up to its first suspension
ReceiveFaults ==
    [r1 : RedisOutcomes, d1 : DbOutcomes, d0 : {"ok", "down"}, rh : {"ok", "fail"},
     r2 : RedisOutcomes, d2 : DbOutcomes, d3 : {"ok", "down"}]

Bad(o) == IF o = "ok" THEN 0 ELSE 1

FaultCount(f) ==
    Bad(f.r1) + Bad(f.d1) + Bad(f.d0) + Bad(f.rh) + Bad(f.r2) + Bad(f.d2) + Bad(f.d3)

\* the fault vectors with at most MaxFaults faults
BoundedReceiveFaults == { f \in ReceiveFaults : FaultCount(f) <= MaxFaults }

Budget == MaxFaults - nfaults

(* ------------------------------ chat_socket ---------------------------- *)
UserPayloads == {<<>>, <<" ">>, <<" ", "h">>}

ResetRound(c) ==
    /\ consumed' = [consumed EXCEPT ![c] = <<>>]
    /\ collected_text' = [collected_text EXCEPT ![c] = <<>>]
    /\ tool_calls_data' = [tool_calls_data EXCEPT ![c] = <<>>]
    /\ pos' = [pos EXCEPT ![c] = 1]
    /\ args' = [args EXCEPT ![c] = {}]
    /\ invoked' = [invoked EXCEPT ![c] = <<>>]

\* receive_json raises WebSocketDisconnect
Disconnect(c) ==
    /\ pc[c] = "idle"
    /\ pc' = [pc EXCEPT ![c] = "closed"]
    /\ UNCHANGED <<visitor, mark, after_failure, failed, events, roundVars, storeVars, countVars>>
    /\ UNCHANGED toolVars

\* send_json raises because the client is gone: the handler leaves its loop
\* and the generator is abandoned at the yield whose event was being sent
Drop(c) ==
    /\ \/ pc[c] \in {"stream", "finalize", "dispatch", "exec"} /\ events[c] # <<>>
       \/ pc[c] = "gen_end"
    /\ pc' = [pc EXCEPT ![c] = "closed"]
    /\ ResetRound(c)
    /\ conversation' = [conversation EXCEPT ![c] = 0]
    /\ prompt' = [prompt EXCEPT ![c] = <<>>]
    /\ appended' = [appended EXCEPT ![c] = <<>>]
    /\ UNCHANGED <<visitor, mark, after_failure, failed, events, user_msg, storeVars, countVars>>
    /\ UNCHANGED toolVars

\* a plausible slip: the message is recorded before it is tested
ReceiveEmptyRecorded(c, m) ==
    /\ pc[c] = "idle"
    /\ nrounds < MaxRounds
    /\ Strip(m) = <<>>
    /\ SetStore(PushMessage(Store, visitor[c], "user", Strip(m), "ok", "ok"))
    /\ events' = [events EXCEPT ![c] = <<ErrorEv("empty")>>]
    /\ user_msg' = [user_msg EXCEPT ![c] = <<>>]
    /\ appended' = [appended EXCEPT ![c] = <<>>]
    /\ prompt' = [prompt EXCEPT ![c] = <<>>]
    /\ ResetRound(c)
    /\ nrounds' = nrounds + 1
    /\ UNCHANGED <<pc, visitor, mark, after_failure, failed, conversation,
                   nchunks, nfaults, nappends>>
    /\ UNCHANGED toolVars

\* an empty or whitespace-only message: one error event, then the next receive
ReceiveEmpty(c, m) ==
    /\ pc[c] = "idle"
    /\ nrounds < MaxRounds
    /\ Strip(m) = <<>>
    /\ events' = [events EXCEPT ![c] = <<ErrorEv("empty")>>]
    /\ user_msg' = [user_msg EXCEPT ![c] = <<>>]
    /\ appended' = [appended EXCEPT ![c] = <<>>]
    /\ prompt' = [prompt EXCEPT ![c] = <<>>]
    /\ ResetRound(c)
    /\ nrounds' = nrounds + 1
    /\ UNCHANGED <<pc, visitor, mark, after_failure, failed, conversation, storeVars,
                   nchunks, nfaults, nappends>>
    /\ UNCHANGED toolVars

\* a non-empty message: push_message in the handler, then the generator up to
\* the provider call (conversation, history, prompt, user turn stored twice)
ReceiveMessage(c, m, f) ==
    LET v == visitor[c]
        um == Strip(m)
        S1 == PushMessage(Store, v, "user", um, f.r1, f.d1)
        S2 == GetOrCreateConversation(S1, v)
        cv == ConvOf(S2, v)
        history == IF f.rh = "ok" THEN S2.cache[v] ELSE <<>>
        S3 == PushMessage(S2, v, "user", um, f.r2, f.d2)
        S4 == AddMessage(S3, cv, "user", um)
        nf == FaultCount(f)
    IN
    /\ pc[c] = "idle"
    /\ nrounds < MaxRounds
    /\ um # <<>>
    /\ nf <= Budget
    /\ nfaults' = nfaults + nf
    /\ nrounds' = nrounds + 1
    /\ user_msg' = [user_msg EXCEPT ![c] = um]
    /\ ResetRound(c)
    /\ mark' = [mark EXCEPT ![c] = [cache |-> Len(cache[v]), messages |-> Len(messages),
                                  faults |-> nfaults]]
    /\ after_failure' = [after_failure EXCEPT ![c] = failed > 0]
    /\ IF f.d0 # "ok"
         THEN \* the conversation lookup raises: caught at the round boundary
              /\ SetStore(S1)
              /\ appended' = [appended EXCEPT ![c] = <<Turn("user", um)>>]
              /\ events' = [events EXCEPT ![c] = <<ErrorEv("conversation")>>]
              /\ pc' = [pc EXCEPT ![c] = "gen_end"]
              /\ failed' = failed + 1
              /\ UNCHANGED <<conversation, prompt>>
         ELSE /\ conversation' = [conversation EXCEPT ![c] = cv]
              /\ prompt' = [prompt EXCEPT ![c] = Append(history, Turn("user", um))]
              /\ appended' = [appended EXCEPT ![c] = <<Turn("user", um), Turn("user", um)>>]
              /\ IF f.d3 # "ok"
                   THEN /\ SetStore(S3)
                        /\ events' = [events EXCEPT ![c] = <<ErrorEv("log_write")>>]
                        /\ pc' = [pc EXCEPT ![c] = "gen_end"]
                        /\ failed' = failed + 1
                   ELSE /\ SetStore(S4)
                        /\ events' = [events EXCEPT ![c] = <<>>]
                        /\ pc' = [pc EXCEPT ![c] = "open"]
                        /\ failed' = failed
    /\ UNCHANGED <<visitor, nchunks, nappends>>
    /\ UNCHANGED toolVars

\* a plausible slip: the handler goes back to receive_json without the marker
RoundCompleteSkipped(c) ==
    /\ pc[c] = "gen_end"
    /\ pc' = [pc EXCEPT ![c] = "idle"]
    /\ ResetRound(c)
    /\ conversation' = [conversation EXCEPT ![c] = 0]
    /\ prompt' = [prompt EXCEPT ![c] = <<>>]
    /\ appended' = [appended EXCEPT ![c] = <<>>]
    /\ UNCHANGED <<visitor, mark, after_failure, failed, events, user_msg, storeVars, countVars>>
    /\ UNCHANGED toolVars

\* the generator is exhausted (its locals are gone): send round_complete and
\* go back to receive_json
RoundComplete(c) ==
    /\ pc[c] = "gen_end"
    /\ events' = [events EXCEPT ![c] = Append(@, RoundCompleteEv)]
    /\ pc' = [pc EXCEPT ![c] = "idle"]
    /\ ResetRound(c)
    /\ conversation' = [conversation EXCEPT ![c] = 0]
    /\ prompt' = [prompt EXCEPT ![c] = <<>>]
    /\ appended' = [appended EXCEPT ![c] = <<>>]
    /\ UNCHANGED <<visitor, mark, after_failure, failed, user_msg, storeVars, countVars>>
    /\ UNCHANGED toolVars

(* ----------------------- stream_chat_with_tools ------------------------ *)
\* a plausible slip: the failure escapes the generator and takes the handler
\* down with it
RaiseErrorEscapes(c, e) ==
    /\ events' = events
    /\ pc' = [pc EXCEPT ![c] = "closed"]
    /\ failed' = failed + 1

\* except Exception: yield the error event; the generator then ends
RaiseError(c, e) ==
    /\ events' = [events EXCEPT ![c] = Append(@, ErrorEv(e))]
    /\ pc' = [pc EXCEPT ![c] = "gen_end"]
    /\ failed' = failed + 1

\* await aclient.chat.completions.create(..., stream=True)
OpenStream(c, ok) ==
    /\ pc[c] = "open"
    /\ IF ok
         THEN /\ pc' = [pc EXCEPT ![c] = "stream"]
              /\ UNCHANGED <<events, nfaults, failed>>
         ELSE /\ Budget >= 1
              /\ nfaults' = nfaults + 1
              /\ RaiseError(c, "provider")
    /\ UNCHANGED <<visitor, mark, after_failure, roundVars, storeVars, nrounds, nchunks, nappends>>
    /\ UNCHANGED toolVars

\* one iteration of "async for chunk in response"
StreamChunk(c, ch) ==
    /\ pc[c] = "stream"
    /\ nchunks < MaxChunks
    /\ nchunks' = nchunks + 1
    /\ consumed' = [consumed EXCEPT ![c] = Append(@, ch)]
    /\ IF ~ch.choices
         THEN UNCHANGED <<pc, events, collected_text, tool_calls_data>>
         ELSE /\ IF ch.content # <<>>
                   THEN /\ collected_text' = [collected_text EXCEPT ![c] = Append(@, ch.content)]
                        /\ events' = [events EXCEPT ![c] = Append(@, TokenEv(ch.content))]
                   ELSE UNCHANGED <<collected_text, events>>
              /\ tool_calls_data' =
                     [tool_calls_data EXCEPT ![c] = MergeAll(@, ch.tool_calls)]
              /\ pc' = [pc EXCEPT ![c] = AfterChunk(ch.finish_reason)]
    /\ UNCHANGED <<visitor, mark, after_failure, failed, user_msg, conversation, prompt, pos, args, invoked,
                   appended, storeVars, nrounds, nfaults, nappends>>
    /\ UNCHANGED toolVars

\* a plausible slip: without a finish signal the round ends as it stands
StreamEndUnfinished(c) ==
    /\ pc[c] = "stream"
    /\ pc' = [pc EXCEPT ![c] = "gen_end"]
    /\ UNCHANGED <<visitor, mark, after_failure, failed, events, roundVars, storeVars, countVars>>
    /\ UNCHANGED toolVars

\* the provider stream is exhausted without a finish signal
StreamEnd(c) ==
    /\ pc[c] = "stream"
    /\ pc' = [pc EXCEPT ![c] = "finalize"]
    /\ UNCHANGED <<visitor, mark, after_failure, failed, events, roundVars, storeVars, countVars>>
    /\ UNCHANGED toolVars

\* the provider stream raises while it is iterated
StreamFail(c) ==
    /\ pc[c] = "stream"
    /\ Budget >= 1
    /\ nfaults' = nfaults + 1
    /\ RaiseError(c, "provider")
    /\ UNCHANGED <<visitor, mark, after_failure, roundVars, storeVars, nrounds, nchunks, nappends>>
    /\ UNCHANGED toolVars

\* after the loop: join and strip the text, store and emit it when non-empty
Finalize(c, ro, do, d3) ==
    LET v == visitor[c]
        final_text == FinalText(collected_text[c])
        S1 == PushMessage(Store, v, "assistant", final_text, ro, do)
        S2 == AddMessage(S1, conversation[c], "assistant", final_text)
        nf == Bad(ro) + Bad(do) + Bad(d3)
    IN
    /\ pc[c] = "finalize"
    /\ IF final_text # <<>>
         THEN /\ nf <= Budget
              /\ nfaults' = nfaults + nf
              /\ appended' = [appended EXCEPT ![c] = Append(@, Turn("assistant", final_text))]
              /\ IF d3 # "ok"
                   THEN /\ SetStore(S1)
                        /\ RaiseError(c, "log_write")
                        /\ pos' = pos
                   ELSE /\ SetStore(S2)
                        /\ events' = [events EXCEPT ![c] = Append(@, DoneEv(final_text))]
                        /\ pc' = [pc EXCEPT ![c] = "dispatch"]
                        /\ pos' = pos
                        /\ failed' = failed
         ELSE /\ ro = "ok" /\ do = "ok" /\ d3 = "ok"
              /\ pc' = [pc EXCEPT ![c] = "dispatch"]
              /\ UNCHANGED <<events, pos, appended, storeVars, nfaults, failed>>
    /\ UNCHANGED <<visitor, mark, after_failure, user_msg, conversation, prompt, consumed, collected_text,
                   tool_calls_data, args, invoked, nrounds, nchunks, nappends>>
    /\ UNCHANGED toolVars

\* a plausible slip: every fragment still to visit, named or not
NamedOrNot(c) == pos[c]..Len(tool_calls_data[c])

\* positions of the fragments still to visit that carry a name
Named(c) ==
    { p \in pos[c]..Len(tool_calls_data[c]) : tool_calls_data[c][p].name # "" }

\* a plausible slip: the list is walked from its end
NextNamedLatest(c) == CHOOSE q \in Named(c) : \A r \in Named(c) : r <= q

\* "for tool_call in tool_calls_data": the next named fragment in list order
NextNamed(c) == CHOOSE q \in Named(c) : \A r \in Named(c) : q <= r

\* a plausible slip: an argument text that does not parse ends the round
AnnounceAborting(c) ==
    /\ pc[c] = "dispatch"
    /\ IF Named(c) = {}
         THEN /\ pc' = [pc EXCEPT ![c] = "gen_end"]
              /\ UNCHANGED <<events, pos, args, failed>>
         ELSE LET p == NextNamed(c)
                  tc == tool_calls_data[c][p]
                  a == ParseArgs(tc.arguments)
              IN /\ pos' = [pos EXCEPT ![c] = p]
                 /\ args' = [args EXCEPT ![c] = a]
                 /\ IF IsJsonObject(tc.arguments)
                      THEN /\ events' = [events EXCEPT ![c] = Append(@, ToolEv(tc.name, a))]
                           /\ pc' = [pc EXCEPT ![c] = "exec"]
                           /\ failed' = failed
                      ELSE RaiseError(c, "provider")
    /\ UNCHANGED <<visitor, mark, after_failure, user_msg, conversation, prompt, consumed, collected_text,
                   tool_calls_data, invoked, appended, storeVars, countVars>>
    /\ UNCHANGED toolVars

\* the dispatch loop up to "yield tool": unnamed fragments are skipped, the
\* argument text is parsed ({} on a parse error) and the intent is announced
Announce(c) ==
    /\ pc[c] = "dispatch"
    /\ IF Named(c) = {}
         THEN /\ pc' = [pc EXCEPT ![c] = "gen_end"]
              /\ UNCHANGED <<events, pos, args>>
         ELSE LET p == NextNamed(c)
                  tc == tool_calls_data[c][p]
                  a == ParseArgs(tc.arguments)
              IN /\ pos' = [pos EXCEPT ![c] = p]
                 /\ args' = [args EXCEPT ![c] = a]
                 /\ events' = [events EXCEPT ![c] = Append(@, ToolEv(tc.name, a))]
                 /\ pc' = [pc EXCEPT ![c] = "exec"]
    /\ UNCHANGED <<visitor, mark, after_failure, failed, user_msg, conversation, prompt, consumed, collected_text,
                   tool_calls_data, invoked, appended, storeVars, countVars>>
    /\ UNCHANGED toolVars

\* a plausible slip: a name that is no tool is answered like notify_team
HandlerOutcomesLenient(name) ==
    IF name = "book_meeting" THEN {"ok", "fail", "raise"}
    ELSE IF name = "save_lead" THEN {"ok", "fail"}
    ELSE {"ok"}

\* outcomes of a handler: a result envelope with ok true or false, or an exception
HandlerOutcomes(name) ==
    IF name = "book_meeting" THEN {"ok", "fail", "raise"}
    ELSE IF name = "save_lead" THEN {"ok", "fail"}
    ELSE IF name = "notify_team" THEN {"ok"}
    ELSE {"unknown"}

\* a plausible slip: a failed tool ends the dispatch loop
AfterToolBreak(c, ok) == IF ok THEN pos[c] + 1 ELSE Len(tool_calls_data[c]) + 1

\* "for tool_call in tool_calls_data": on to the next fragment, whatever the result
AfterTool(c, ok) == pos[c] + 1

\* the handler call, the audit row and "yield tool_result"
Exec(c, out, d) ==
    LET name == tool_calls_data[c][pos[c]].name
        ok == out = "ok"
        S1 == AddMessage(Store, conversation[c], "tool",
                         <<"tool", name, args[c], ok>>)
    IN
    /\ pc[c] = "exec"
    /\ out \in HandlerOutcomes(name)
    /\ invoked' = [invoked EXCEPT ![c] = IF name \in KnownTools THEN Append(@, name) ELSE @]
    /\ Bad(d) <= Budget
    /\ nfaults' = nfaults + Bad(d)
    /\ IF d # "ok"
         THEN /\ RaiseError(c, "log_write")
              /\ UNCHANGED <<storeVars, pos>>
         ELSE /\ SetStore(S1)
              /\ events' = [events EXCEPT ![c] = @ \o ResultEvents(name, ok)]
              /\ pos' = [pos EXCEPT ![c] = AfterTool(c, ok)]
              /\ pc' = [pc EXCEPT ![c] = "dispatch"]
              /\ failed' = failed
    /\ call' = [op |-> "tool", entry |-> "ws", name |-> name, out |-> out]
    /\ UNCHANGED <<visitor, mark, after_failure, user_msg, conversation, prompt, consumed, collected_text,
                   tool_calls_data, args, appended, nrounds, nchunks, nappends>>
    /\ UNCHANGED <<leads, lead_link, pending>>

(* ---------------------------- specification ---------------------------- *)
\* the steps of one connection: chat_socket and the generator it drives
Next ==
    \/ Disconnect("c1")
    \/ Drop("c1")
    \/ \E m \in UserPayloads : ReceiveEmpty("c1", m)
    \/ \E m \in UserPayloads, f \in BoundedReceiveFaults : ReceiveMessage("c1", m, f)
    \/ \E ok \in BOOLEAN : OpenStream("c1", ok)
    \/ \E ch \in Chunks : StreamChunk("c1", ch)
    \/ StreamEnd("c1")
    \/ StreamFail("c1")
    \/ \E ro \in RedisOutcomes, do \in DbOutcomes, d3 \in DbOutcomes :
           Finalize("c1", ro, do, d3)
    \/ Announce("c1")
    \/ \E out \in {"ok", "fail", "raise", "unknown"}, d \in DbOutcomes : Exec("c1", out, d)
    \/ RoundComplete("c1")

\* one channel serving its visitor round after round
Spec == Init /\ [][Next]_vars


(* ------------------------- reading the event log ----------------------- *)

Count(E, t) == Cardinality({ i \in 1..Len(E) : E[i].type = t })

HasType(E, t) == \E i \in 1..Len(E) : E[i].type = t

\* the events of a round before its error event (all of them when there is none)
BeforeError(E) ==
    IF HasType(E, "error")
      THEN SubSeq(E, 1, (CHOOSE i \in 1..Len(E) :
                            E[i].type = "error" /\ \A j \in 1..(i - 1) : E[j].type # "error") - 1)
      ELSE E

\* data of the token events, in order
RECURSIVE TokenData(_)
TokenData(E) ==
    IF E = <<>> THEN <<>>
    ELSE IF Head(E).type = "token" THEN <<Head(E).data>> \o TokenData(Tail(E))
    ELSE TokenData(Tail(E))

\* place of an event type in  token* done? (tool tool_result)* round_complete
Phase(t) ==
    IF t = "token" THEN 1
    ELSE IF t = "done" THEN 2
    ELSE IF t \in {"tool", "tool_result"} THEN 3
    ELSE 4

\* E is a prefix of a word of  token* done? (tool tool_result)* round_complete
GrammarPrefix(E) ==
    /\ \A i \in 1..Len(E) : E[i].type \in {"token", "done", "tool", "tool_result", "round_complete"}
    /\ \A i, j \in 1..Len(E) : i < j => Phase(E[i].type) <= Phase(E[j].type)
    /\ Count(E, "done") <= 1
    /\ \A i \in 1..Len(E) :
          /\ E[i].type = "tool" /\ i < Len(E) =>
                 E[i + 1].type = "tool_result" /\ E[i + 1].name = E[i].name
          /\ E[i].type = "tool_result" =>
                 i > 1 /\ E[i - 1].type = "tool" /\ E[i - 1].name = E[i].name
          /\ E[i].type = "round_complete" => i = Len(E)

\* E is a whole word of the grammar
GrammarWord(E) ==
    /\ GrammarPrefix(E)
    /\ E # <<>>
    /\ E[Len(E)].type = "round_complete"
    /\ Len(E) > 1 => E[Len(E) - 1].type # "tool"

\* the round of connection c is over and its events are all sent
RoundOver(c) == pc[c] = "idle" /\ events[c] # <<>>

(* ------------------------------- C1 ------------------------------------ *)
\* C1: the events of a round follow  token* done? (tool tool_result)*
\* round_complete: no token after a done, tool or tool_result event, at most
\* one done, every tool event immediately followed by the tool_result of the
\* same name, round_complete last.  The events sent before an error event are
\* a prefix of such a word, and a round without an error event sends a whole
\* word once it is over.
C1_EventGrammar ==
    \A c \in Conns :
        /\ GrammarPrefix(BeforeError(events[c]))
        /\ RoundOver(c) /\ ~HasType(events[c], "error") => GrammarWord(events[c])

\* a finished round with tokens, a done event and two announced tools
C1_Witness ==
    \E c \in Conns :
        /\ RoundOver(c)
        /\ ~HasType(events[c], "error")
        /\ Count(events[c], "token") >= 1
        /\ Count(events[c], "done") = 1
        /\ Count(events[c], "tool_result") >= 2


(* ------------------------------- C2 ------------------------------------ *)
\* position of the first event of type t in E (Len(E) + 1 when there is none)
FirstOf(E, t) ==
    IF HasType(E, t)
      THEN CHOOSE i \in 1..Len(E) : E[i].type = t /\ \A j \in 1..(i - 1) : E[j].type # t
      ELSE Len(E) + 1

\* C2: a tool handler runs only after the stream loop has been left, every
\* token of the round has been emitted, and the assistant text (when there is
\* any) has been appended to the Session Store and emitted as done; no token
\* event follows the first tool event.
C2_TextBeforeTools ==
    \A c \in Conns :
        (pc[c] = "exec" \/ invoked[c] # <<>>) =>
            LET E == events[c]
                ft == Strip(Join(collected_text[c]))
            IN /\ pc[c] \in {"exec", "dispatch", "gen_end"}
               /\ HasType(E, "tool")
               /\ TokenData(E) = collected_text[c]
               /\ \A i \in 1..Len(E) : E[i].type = "token" => i < FirstOf(E, "tool")
               /\ ft # <<>> =>
                     /\ FirstOf(E, "done") < FirstOf(E, "tool")
                     /\ \E i \in 1..Len(appended[c]) : appended[c][i] = Turn("assistant", ft)

\* a handler has run in a round that streamed text
C2_Witness ==
    \E c \in Conns :
        /\ invoked[c] # <<>>
        /\ Count(events[c], "token") >= 1
        /\ Count(events[c], "done") = 1

(* ------------------------------- C6 ------------------------------------ *)
\* the generator of connection c has finished its text phase without failing
TextPhaseOver(c) ==
    pc[c] \in {"dispatch", "exec", "gen_end"} /\ ~HasType(events[c], "error")

AssistantTurns(c) ==
    { i \in 1..Len(appended[c]) : appended[c][i].role = "assistant" }

\* C6 as stated: done is emitted exactly when the concatenation of the token
\* data is non-empty, and done and the stored assistant turn carry that
\* concatenation.
C6_DoneIsConcatenation ==
    \A c \in Conns :
        TextPhaseOver(c) =>
            LET E == events[c]
                full == Join(TokenData(E))
            IN /\ HasType(E, "done") <=> full # <<>>
               /\ \A i \in 1..Len(E) : E[i].type = "done" => E[i].data = full
               /\ \A i \in AssistantTurns(c) : appended[c][i].content = full
               /\ full = <<>> => AssistantTurns(c) = {}

\* C6 amended: done is emitted exactly when the concatenation of the token
\* data, stripped of leading and trailing whitespace, is non-empty; done and
\* the stored assistant turn carry the stripped concatenation; when it is
\* empty there is no done event and no assistant turn.  A done event is never
\* sent without the assistant turn having been appended.
C6_DoneIsStrippedConcatenation ==
    \A c \in Conns :
        LET E == events[c]
            st == Strip(Join(TokenData(E)))
        IN /\ TextPhaseOver(c) =>
                 /\ HasType(E, "done") <=> st # <<>>
                 /\ Cardinality(AssistantTurns(c)) = (IF st # <<>> THEN 1 ELSE 0)
           /\ pc[c] \notin {"idle", "closed"} =>
                 /\ \A i \in 1..Len(E) : E[i].type = "done" =>
                        E[i].data = st /\ st # <<>> /\ AssistantTurns(c) # {}
                 /\ \A i \in AssistantTurns(c) : appended[c][i].content = st /\ st # <<>>

\* a done event whose text differs from the raw concatenation of the tokens
C6_Witness ==
    \E c \in Conns :
        /\ TextPhaseOver(c)
        /\ HasType(events[c], "done")
        /\ Join(TokenData(events[c])) # Strip(Join(TokenData(events[c])))

(* ------------------------------- C7 ------------------------------------ *)
\* the chunks up to and including the first one that carries a finish signal
RECURSIVE UpToFinish(_)
UpToFinish(cs) ==
    IF cs = <<>> THEN <<>>
    ELSE IF Head(cs).choices /\ Head(cs).finish_reason \in {"stop", "tool_calls"}
           THEN <<Head(cs)>>
    ELSE <<Head(cs)>> \o UpToFinish(Tail(cs))

\* the text-deltas among the chunks: the non-empty contents, in order
RECURSIVE TextDeltas(_)
TextDeltas(cs) ==
    IF cs = <<>> THEN <<>>
    ELSE IF Head(cs).choices /\ Head(cs).content # <<>>
           THEN <<Head(cs).content>> \o TextDeltas(Tail(cs))
    ELSE TextDeltas(Tail(cs))

\* the tool-call deltas among the chunks, in order
RECURSIVE DeltasOf(_)
DeltasOf(cs) ==
    IF cs = <<>> THEN <<>>
    ELSE IF Head(cs).choices THEN Head(cs).tool_calls \o DeltasOf(Tail(cs))
    ELSE DeltasOf(Tail(cs))

\* C7: while a round runs, its token events are exactly the text-deltas of
\* the chunks received up to the finish signal, one event per delta, same
\* data, same order; no chunk is pulled after the finish signal, so nothing
\* sent after it becomes a token or reaches a fragment.
C7_TokensAreDeltas ==
    \A c \in Conns :
        pc[c] \notin {"idle", "closed"} =>
            /\ TokenData(events[c]) = TextDeltas(UpToFinish(consumed[c]))
            /\ consumed[c] = UpToFinish(consumed[c])
            /\ pc[c] = "stream" =>
                   \A i \in 1..Len(consumed[c]) :
                       ~(consumed[c][i].choices
                           /\ consumed[c][i].finish_reason \in {"stop", "tool_calls"})

\* two text-deltas were forwarded and the loop was left on a finish signal
C7_Witness ==
    \E c \in Conns :
        /\ pc[c] = "finalize"
        /\ Len(TokenData(events[c])) = 2
        /\ consumed[c][Len(consumed[c])].finish_reason = "stop"


(* ------------------------------- C3 ------------------------------------ *)
\* occurrences of the turn (role, content) in the list h after position from
Occurrences(h, from, role, content) ==
    Cardinality({ i \in (from + 1)..Len(h) : h[i].role = role /\ h[i].content = content })

\* the rows of the durable log that belong to a conversation of visitor v
RowsOf(v) ==
    LET keep(i) == conversations[messages[i].conv] = v
        F[i \in 0..Len(messages)] ==
            IF i = 0 THEN <<>>
            ELSE IF keep(i) THEN Append(F[i - 1], messages[i]) ELSE F[i - 1]
    IN F[Len(messages)]

\* rows of visitor v among the first n rows of the durable log
RowsBefore(v, n) ==
    Cardinality({ i \in 1..n : conversations[messages[i].conv] = v })

\* the round of c ended with round_complete and without an error event
RoundCompleted(c) ==
    /\ pc[c] = "idle"
    /\ HasType(events[c], "round_complete")
    /\ ~HasType(events[c], "error")

\* C3: after a round completes, the user turn and the non-empty assistant
\* turn of that round are each exactly once in the visitor's cached history
\* and exactly once in the durable log of the visitor's conversation.
C3_EachTurnOnce ==
    \A c \in Conns :
        RoundCompleted(c) =>
            LET v == visitor[c]
                h == cache[v]
                rows == RowsOf(v)
                before == RowsBefore(v, mark[c].messages)
                E == events[c]
            IN /\ Occurrences(h, mark[c].cache, "user", user_msg[c]) = 1
               /\ Occurrences(rows, before, "user", user_msg[c]) = 1
               /\ \A i \in 1..Len(E) : E[i].type = "done" =>
                      /\ Occurrences(h, mark[c].cache, "assistant", E[i].data) = 1
                      /\ Occurrences(rows, before, "assistant", E[i].data) = 1

(* ------------------------------- C8 ------------------------------------ *)
\* C8: an error event is the last event of its round: no token, done, tool,
\* tool_result or round_complete event is sent after it.
C8_ErrorIsLast ==
    \A c \in Conns :
        \A i \in 1..Len(events[c]) : events[c][i].type = "error" => i = Len(events[c])


(* ------------------------- the cache on its own ------------------------ *)
\* push_message called for visitor v with a turn that carries its serial number
CachePush(v) ==
    /\ nappends < MaxAppends
    /\ nappends' = nappends + 1
    /\ SetStore(PushMessage(Store, v, "user", <<nappends + 1>>, "ok", "ok"))
    /\ UNCHANGED <<connVars, nrounds, nchunks, nfaults>>
    /\ UNCHANGED toolVars

\* trim_history called for visitor v with the default max_messages
CacheTrim(v) ==
    /\ cache' = [cache EXCEPT ![v] = TrimHistory(@, MAX_MESSAGES)]
    /\ UNCHANGED <<connVars, expiry, conversations, messages, countVars>>
    /\ UNCHANGED toolVars

\* a plausible slip: every key is deleted
ClearEverything(S, v) ==
    [S EXCEPT !.cache = [w \in Visitors |-> <<>>], !.expiry = [w \in Visitors |-> <<>>]]

\* r.delete(_key(visitor_id)): the list goes and its expiry with it
ClearHistory(S, v) == [S EXCEPT !.cache[v] = <<>>, !.expiry[v] = <<>>]

\* clear_history called for visitor v with redis outcome ro: the key is
\* deleted and True returned, or the exception is swallowed and False returned;
\* the log is not touched. The call records whether v had no round in
\* progress and how many rounds had begun
CacheClear(v, ro) ==
    /\ cache' = IF ro = "ok" THEN ClearHistory(Store, v).cache ELSE cache
    /\ expiry' = IF ro = "ok" THEN ClearHistory(Store, v).expiry ELSE expiry
    /\ call' = [op |-> "clear_history", visitor |-> v, ok |-> ro = "ok",
                idle |-> \A c \in Conns : visitor[c] = v => pc[c] \in {"idle", "closed"},
                rounds |-> nrounds]
    /\ UNCHANGED <<connVars, conversations, messages, countVars, leads, lead_link, pending>>

NextCache ==
    \/ CachePush("A")
    \/ CacheTrim("A")
    \/ \E ro \in RedisOutcomes : CacheClear("A", ro)

\* appends, trims and clears of one visitor's history
SpecCache == Init /\ [][NextCache]_vars

(* ------------------------------- C4 ------------------------------------ *)
\* C4: after every append the cached history holds at most N = 50 turns, and
\* once more than N turns have been appended (since the key was last empty)
\* it holds exactly the N most recently appended ones in their original order.
C4_CacheCapped ==
    \A v \in Visitors :
        /\ Len(cache[v]) <= MAX_MESSAGES
        /\ v = "A" /\ Len(cache[v]) >= MAX_MESSAGES =>
               cache[v] = [i \in 1..MAX_MESSAGES |->
                               Turn("user", <<nappends - MAX_MESSAGES + i>>)]


(* ---------------------- the accumulator on its own --------------------- *)
\* tool-call deltas: an index seen before a lower one, argument text split
\* over several deltas, ids and names given twice or not at all
MergeDeltas ==
    { Delta(1, "x", "n", <<"{">>),
      Delta(1, "", "", <<"}">>),
      Delta(0, "y", "m", <<"{">>),
      Delta(0, "x", "n", <<>>),
      Delta(0, "", "", <<"e", "}">>),
      Delta(2, "", "", <<"}">>) }

\* chunks that carry one or two deltas, the last of them maybe a finish signal
MergeChunks ==
    { Chunk(TRUE, <<>>, ds, fr) :
        ds \in { <<d>> : d \in MergeDeltas } \cup { <<d, e>> : d, e \in MergeDeltas },
        fr \in {"none", "tool_calls"} }

\* a round of visitor A that has reached the stream loop without any fault
InitMerge ==
    LET u == Turn("user", <<"h">>)
        row == [conv |-> 1, role |-> "user", content |-> <<"h">>]
    IN
    /\ pc = [c \in Conns |-> IF c = "c1" THEN "stream" ELSE "idle"]
    /\ visitor = [c \in Conns |-> IF c = "c1" THEN "A" ELSE "B"]
    /\ events = [c \in Conns |-> <<>>]
    /\ user_msg = [c \in Conns |-> IF c = "c1" THEN <<"h">> ELSE <<>>]
    /\ conversation = [c \in Conns |-> IF c = "c1" THEN 1 ELSE 0]
    /\ prompt = [c \in Conns |-> IF c = "c1" THEN <<u, u>> ELSE <<>>]
    /\ consumed = [c \in Conns |-> <<>>]
    /\ collected_text = [c \in Conns |-> <<>>]
    /\ tool_calls_data = [c \in Conns |-> <<>>]
    /\ pos = [c \in Conns |-> 1]
    /\ args = [c \in Conns |-> {}]
    /\ invoked = [c \in Conns |-> <<>>]
    /\ appended = [c \in Conns |-> IF c = "c1" THEN <<u, u>> ELSE <<>>]
    /\ mark = [c \in Conns |-> [cache |-> 0, messages |-> 0, faults |-> 0]]
    /\ after_failure = [c \in Conns |-> FALSE]
    /\ failed = 0
    /\ cache = [v \in Visitors |-> IF v = "A" THEN <<u, u>> ELSE <<>>]
    /\ expiry = [v \in Visitors |-> IF v = "A" THEN <<HISTORY_TTL>> ELSE <<>>]
    /\ conversations = <<"A">>
    /\ messages = <<row, row, row>>
    /\ nrounds = 1
    /\ nchunks = 0
    /\ nfaults = 0
    /\ nappends = 0
    /\ leads = <<>>
    /\ lead_link = [v \in Visitors |-> 0]
    /\ pending = [t \in Requests |-> Idle]
    /\ call = NoCall

NextMerge == \E ch \in MergeChunks : StreamChunk("c1", ch)

\* the stream loop fed with tool-call deltas
SpecMerge == InitMerge /\ [][NextMerge]_vars

(* ------------------------------- C5 ------------------------------------ *)
\* the deltas of ds addressed to index i, in arrival order
RECURSIVE AddressedTo(_, _)
AddressedTo(ds, i) ==
    IF ds = <<>> THEN <<>>
    ELSE IF Head(ds).index = i THEN <<Head(ds)>> \o AddressedTo(Tail(ds), i)
    ELSE AddressedTo(Tail(ds), i)

\* concatenation of the argument substrings of ds
RECURSIVE AllArguments(_)
AllArguments(ds) ==
    IF ds = <<>> THEN <<>> ELSE Head(ds).arguments \o AllArguments(Tail(ds))

\* the last non-empty id / name of ds ("" when there is none)
LastId(ds) ==
    LET S == { k \in 1..Len(ds) : ds[k].id # "" }
    IN IF S = {} THEN "" ELSE ds[CHOOSE k \in S : \A j \in S : j <= k].id

LastName(ds) ==
    LET S == { k \in 1..Len(ds) : ds[k].name # "" }
    IN IF S = {} THEN "" ELSE ds[CHOOSE k \in S : \A j \in S : j <= k].name

HighestIndex(ds) ==
    CHOOSE i \in { ds[k].index : k \in 1..Len(ds) } : \A k \in 1..Len(ds) : ds[k].index <= i

\* C5: whatever the order and the splitting of the tool-call deltas, the
\* fragment at index i has as arguments the concatenation, in arrival order,
\* of the argument substrings addressed to i, as id and name the last
\* non-empty id and name addressed to i, and the list is as long as the
\* highest index seen plus one.
C5_FragmentsReassembled ==
    \A c \in Conns :
        pc[c] \in {"stream", "finalize"} =>
            LET ds == DeltasOf(consumed[c])
                tcd == tool_calls_data[c]
            IN /\ Len(tcd) = (IF ds = <<>> THEN 0 ELSE HighestIndex(ds) + 1)
               /\ \A p \in 1..Len(tcd) :
                      LET mine == AddressedTo(ds, p - 1)
                      IN /\ tcd[p].arguments = AllArguments(mine)
                         /\ tcd[p].id = LastId(mine)
                         /\ tcd[p].name = LastName(mine)

\* at the finish signal: index 1 was seen before index 0, and the arguments
\* of both fragments came in more than one piece
C5_Witness ==
    LET ds == DeltasOf(consumed["c1"])
    IN /\ pc["c1"] = "finalize"
       /\ Len(ds) >= 4
       /\ ds[1].index = 1
       /\ Len(tool_calls_data["c1"]) = 2
       /\ tool_calls_data["c1"][1].arguments = <<"{", "e", "}">>
       /\ tool_calls_data["c1"][2].arguments = <<"{", "}">>


(* ------------------------------ fairness ------------------------------- *)
\* what the event loop does for a round in progress on connection c: the
\* provider call returns, the stream delivers, ends or fails, the generator
\* and the handler run on to their next suspension point
ContinueWith(c, CS) ==
    \/ \E ok \in BOOLEAN : OpenStream(c, ok)
    \/ \E ch \in CS : StreamChunk(c, ch)
    \/ StreamEnd(c)
    \/ StreamFail(c)
    \/ \E ro \in RedisOutcomes, do \in DbOutcomes, d3 \in DbOutcomes : Finalize(c, ro, do, d3)
    \/ Announce(c)
    \/ \E out \in {"ok", "fail", "raise", "unknown"}, d \in DbOutcomes : Exec(c, out, d)
    \/ RoundComplete(c)

Continue(c) == ContinueWith(c, Chunks)

\* one channel, every started round being run on by the event loop
SpecLive == Init /\ [][Next]_vars /\ WF_vars(Continue("c1"))

(* ------------------------------- C9 ------------------------------------ *)
Running == {"open", "stream", "finalize", "dispatch", "exec", "gen_end"}

\* the round of c has sent a terminal event and the channel reads again
Terminated(c) ==
    /\ pc[c] = "idle"
    /\ events[c] # <<>>
    /\ HasType(events[c], "round_complete") \/ HasType(events[c], "error")

\* the tool announced last has been answered, or the round has failed
Answered(c) ==
    /\ events[c] # <<>>
    /\ events[c][Len(events[c])].type \in {"tool_result", "error"}

\* C9 as stated: a round that has entered the streaming protocol is never
\* abandoned partway: when the handler has stopped, the last thing the round
\* sent is its terminal event (round_complete or error), never, say, a tool
\* intent whose handler has not run.
C9_NeverAbandoned ==
    \A c \in Conns :
        pc[c] = "closed" /\ events[c] # <<>> =>
            events[c][Len(events[c])].type \in {"round_complete", "error"}

\* C9 amended: as long as the channel is not closed under it, a round that has
\* entered the streaming protocol reaches its terminal event and hands the
\* channel back, and an announced tool is executed and answered (or the round
\* fails with an error event).
C9_RoundTerminates ==
    /\ (pc["c1"] \in Running) ~> (Terminated("c1") \/ pc["c1"] = "closed")
    /\ (pc["c1"] = "exec") ~> (Answered("c1") \/ pc["c1"] = "closed")

\* a round that announced a tool has reached its terminal event
C9_Witness ==
    /\ Terminated("c1")
    /\ HasType(events["c1"], "tool")
    /\ HasType(events["c1"], "round_complete")

(* --------------------------- two channels ------------------------------ *)
\* what the provider streams to the two channels: text next to a tool-call
\* delta, and text with the "stop" signal
TwoChunks ==
    { Chunk(TRUE, <<"a">>, <<Delta(0, "id0", "notify_team", <<"{", "}">>)>>, "none"),
      Chunk(TRUE, <<"a">>, <<>>, "stop") }

\* the steps of the handler and of the generator on channel c
NextTwo ==
    \E c \in Conns :
        \/ Disconnect(c)
        \/ Drop(c)
        \/ \E m \in UserPayloads : ReceiveEmpty(c, m)
        \/ \E m \in UserPayloads, f \in BoundedReceiveFaults : ReceiveMessage(c, m, f)
        \/ ContinueWith(c, TwoChunks)

\* two channels of two visitors over the shared stores, every started round
\* being run on by the event loop
SpecTwo ==
    /\ Init
    /\ [][NextTwo]_vars
    /\ WF_vars(ContinueWith("c1", TwoChunks))
    /\ WF_vars(ContinueWith("c2", TwoChunks))

(* ------------------------------- C10 ----------------------------------- *)
\* C10: an unhandled failure inside a round becomes exactly one error event of
\* that round and leaves the other channel alone; the handler then goes back
\* to reading; and a round begun after a failure, on the same channel or on
\* the other visitor's, sends no error event unless a fault of its own
\* occurs, and sends a whole word of the event grammar when it completes.
C10_FailureContained ==
    /\ [][failed' = failed + 1 =>
            \E c \in Conns :
                /\ Count(events'[c], "error") = 1
                /\ events'[c][Len(events'[c])].type = "error"
                /\ pc'[c] = "gen_end"
                /\ \A d \in Conns \ {c} : events'[d] = events[d] /\ pc'[d] = pc[d]]_vars
    /\ [](\A c \in Conns :
            after_failure[c] /\ user_msg[c] # <<>> /\ nfaults = mark[c].faults =>
                ~HasType(events[c], "error"))
    /\ [](\A c \in Conns :
            after_failure[c] /\ RoundOver(c) /\ ~HasType(events[c], "error") =>
                GrammarWord(events[c]))
    /\ \A c \in Conns :
            (pc[c] = "gen_end" /\ HasType(events[c], "error")) ~> (pc[c] \in {"idle", "closed"})

\* the round of visitor A failed with an error event and was handed back, and
\* a round of visitor B begun afterwards completed with text and a tool call
C10_Witness ==
    /\ pc["c1"] = "idle"
    /\ HasType(events["c1"], "error")
    /\ user_msg["c1"] # <<>>
    /\ after_failure["c2"]
    /\ pc["c2"] = "idle"
    /\ HasType(events["c2"], "done")
    /\ HasType(events["c2"], "tool_result")
    /\ HasType(events["c2"], "round_complete")
    /\ ~HasType(events["c2"], "error")

(* ------------------------------- C11 ----------------------------------- *)
\* C11: a failure to write a turn (user, assistant or tool audit) to the
\* durable log does not abort the round: no round carries an error event
\* raised by such a write.
C11_LogFailureTolerated ==
    \A c \in Conns :
        \A i \in 1..Len(events[c]) :
            ~(events[c][i].type = "error" /\ events[c][i].name = "log_write")

(* --------------------------- push_message alone ------------------------ *)
MaxPushes == 3

\* one call of push_message for visitor v, with the outcome of its redis
\* calls and of its durable mirror; the call returns None whatever happens
Push(v, role, ro, do) ==
    LET turn == Turn(role, <<nappends + 1>>) IN
    /\ nappends < MaxPushes
    /\ nappends' = nappends + 1
    /\ SetStore(PushMessage(Store, v, role, turn.content, ro, do))
    /\ call' = [op |-> "push_message", visitor |-> v, turn |-> turn, ro |-> ro, do |-> do]
    /\ UNCHANGED <<connVars, nrounds, nchunks, nfaults, leads, lead_link, pending>>

NextPush ==
    \E v \in Visitors, role \in {"user", "assistant"}, ro \in RedisOutcomes, do \in DbOutcomes :
        Push(v, role, ro, do)

\* appends of turns whose cache write or durable write may fail
SpecPush == Init /\ [][NextPush]_vars

\* the turn of the last push_message call is in the visitor's cached history
InCache ==
    \E i \in 1..Len(cache[call.visitor]) : cache[call.visitor][i] = call.turn

\* the turn of the last push_message call is in the visitor's durable log
InLog ==
    \E i \in 1..Len(messages) :
        /\ messages[i].role = call.turn.role
        /\ messages[i].content = call.turn.content
        /\ conversations[messages[i].conv] = call.visitor

(* ------------------------------- C12 ----------------------------------- *)
\* C12: the two writes of push_message fail independently: when only the
\* durable write fails the turn is in the cache, and when only the cache
\* write fails the turn is in the durable log.
C12_WritesIndependent ==
    call.op = "push_message" =>
        /\ (call.ro = "ok" /\ call.do # "ok" => InCache)
        /\ (call.ro # "ok" /\ call.do = "ok" => InLog)

(* ------------------------------- scoring -------------------------------- *)
Min(a, b) == IF a < b THEN a ELSE b
Max(a, b) == IF a > b THEN a ELSE b

\* round(n / d) for n >= 0 and d > 0, ties to the even neighbour, for a
\* quotient the double holds exactly
RoundHalfEven(n, d) ==
    LET q == n \div d
        r == n % d
    IN IF 2 * r < d THEN q
       ELSE IF 2 * r > d THEN q + 1
       ELSE IF q % 2 = 0 THEN q ELSE q + 1

TimelineScore(timeline_days) ==
    IF timeline_days <= 30 THEN 100
    ELSE IF timeline_days <= 60 THEN 85
    ELSE IF timeline_days <= 90 THEN 70
    ELSE IF timeline_days <= 180 THEN 50
    ELSE 30

\* authority.lower() if authority else "unknown"
Lower(authority) ==
    IF authority = "" THEN "unknown"
    ELSE IF authority = "DM" THEN "dm"
    ELSE authority

\* authority_map.get(..., 40)
AuthorityScore(authority) ==
    LET key == Lower(authority) IN
    IF key = "dm" THEN 100
    ELSE IF key = "influencer" THEN 70
    ELSE IF key = "unknown" THEN 40
    ELSE IF key = "no" THEN 10
    ELSE 40

\* the whole percents q for which the double (200 q + 100) / 20000 * 100 is
\* not q + 0.5 but the next double above it, or the one below it
TieAbove == {3, 27, 54, 55}
TieBelow == {14, 28, 56, 57}

\* round((budget_normalized / 20000) * 100) as the doubles give it
BudgetScore(budget_normalized) ==
    LET q == budget_normalized \div 200
        r == budget_normalized % 200
    IN IF r = 100 /\ q \in TieAbove THEN q + 1
       ELSE IF r = 100 /\ q \in TieBelow THEN q
       ELSE RoundHalfEven(budget_normalized, 200)

\* a plausible slip: the clarity is taken as given
ClarityUnclamped(clarity_score) == clarity_score

\* max(0, min(100, clarity_score))
ClarityNormalized(clarity_score) == Max(0, Min(100, clarity_score))

\* the weighted sum is a whole number of fifths, so its double is never
\* within rounding error of a tie
score_lead(budget_max, timeline_days, authority, clarity_score) ==
    LET budget_normalized == Min(Max(budget_max, 0), 20000)
        budget_score == BudgetScore(budget_normalized)
        clarity_normalized == ClarityNormalized(clarity_score)
    IN RoundHalfEven(4 * budget_score + 2 * TimelineScore(timeline_days)
                       + 2 * AuthorityScore(authority) + 2 * clarity_normalized, 10)

status_from_score(score) ==
    IF score >= 80 THEN "hot" ELSE IF score >= 50 THEN "warm" ELSE "cold"

(* ------------------------------ lead rows ------------------------------- *)
\* an optional value: None is <<>>, a value v is <<v>>
None == <<>>

FieldNames ==
    {"name", "company", "budget_min", "budget_max", "timeline", "authority", "project_summary"}

IntFields == {"budget_min", "budget_max"}

\* a timeline text: the digits it contains (if any) and the unit it names
Timeline(digits, unit) == [digits |-> digits, unit |-> unit]

\* args.get(k)
Get(a, k) == IF k \in DOMAIN a THEN <<a[k]>> ELSE None

\* python truth of an optional value of field k: None, 0 and "" are false
Falsy(k, x) ==
    \/ x = None
    \/ IF k \in IntFields THEN x[1] = 0
       ELSE IF k = "timeline" THEN x[1].unit = "empty"
       ELSE x[1] = ""

\* x or y
Or(k, x, y) == IF Falsy(k, x) THEN y ELSE x

\* Lead(email=email): every other column is NULL
NewLead(email) ==
    [email |-> email, f |-> [k \in FieldNames |-> None], score |-> None, status |-> None]

\* db.query(Lead).filter(Lead.email == email).first(), for an optional email:
\* the id of the first match, 0 when there is none
FindLead(L, email) ==
    IF \E i \in 1..Len(L) : L[i].email = email
      THEN CHOOSE i \in 1..Len(L) :
               /\ L[i].email = email
               /\ \A j \in 1..(i - 1) : L[j].email # email
      ELSE 0

\* int(''.join(filter(str.isdigit, timeline_str))): every digit of the text,
\* in order, read as one decimal number
RECURSIVE DigitsValue(_)
DigitsValue(digits) ==
    IF digits = <<>> THEN 0
    ELSE 10 * DigitsValue(SubSeq(digits, 1, Len(digits) - 1)) + digits[Len(digits)]

\* timeline_days of save_lead: "week" in the text: 7 x the digits (4 when
\* there are none); else "month" in the text: 30 x the digits (3 when there are
\* none); else 60
TimelineDays(t) ==
    IF Falsy("timeline", t) THEN 60
    ELSE IF t[1].unit = "week"
      THEN 7 * (IF t[1].digits = <<>> THEN 4 ELSE DigitsValue(t[1].digits))
    ELSE IF t[1].unit = "month"
      THEN 30 * (IF t[1].digits = <<>> THEN 3 ELSE DigitsValue(t[1].digits))
    ELSE 60

\* save_lead: lead.k = args.get(k) or lead.k, for each of the seven fields
MergeFields(row, a) == [k \in FieldNames |-> Or(k, Get(a, k), row.f[k])]

\* int(args["score"])
ExplicitScore(x) == x

\* save_lead: the row as it is handed to db.add, from the row that was read
SaveLeadRow(row, a) ==
    LET f == MergeFields(row, a)
        score == IF "score" \in DOMAIN a THEN ExplicitScore(a.score)
                 ELSE score_lead(Or("budget_max", f["budget_max"], <<0>>)[1],
                                 TimelineDays(f["timeline"]),
                                 Or("authority", f["authority"], <<"unknown">>)[1], 70)
        status == IF ~Falsy("status", Get(a, "status")) THEN a.status
                  ELSE status_from_score(score)
    IN [email |-> row.email, f |-> f, score |-> <<score>>, status |-> <<status>>]

\* the chat route: every field is assigned from the request, provided or not
ChatLeadRow(row, a) ==
    LET sc == IF "score" \in DOMAIN a THEN a.score
              ELSE score_lead(Or("budget_max", Get(a, "budget_max"), <<0>>)[1], 60,
                              Or("authority", Get(a, "authority"), <<"unknown">>)[1], 12)
        st == IF ~Falsy("status", Get(a, "status")) THEN a.status
              ELSE status_from_score(sc)
    IN [email |-> row.email, f |-> [k \in FieldNames |-> Get(a, k)],
        score |-> <<sc>>, status |-> <<st>>]

\* the UPDATE of a commit: the columns the session changed since it read the
\* row are written, the others keep what the table holds now
Flush(now, read, new) ==
    [email |-> now.email,
     f |-> [k \in FieldNames |-> IF new.f[k] # read.f[k] THEN new.f[k] ELSE now.f[k]],
     score |-> IF new.score # read.score THEN new.score ELSE now.score,
     status |-> IF new.status # read.status THEN new.status ELSE now.status]

(* ----------------------------- tool handlers --------------------------- *)
MaxCalls == 3

\* the visitor a request or a dispatch works for
VisitorOf(t) == IF t = "t1" THEN "A" ELSE "B"

\* a result envelope
Envelope(ok, error) ==
    [ok |-> ok, error |-> error, lead_id |-> 0, score |-> None, status |-> None,
     event_id |-> "", email_sent |-> None, simulated |-> FALSE]

\* collaborator calls made by a handler: calendar inserts, emails, Slack posts
NoCollaborator == [calendar |-> 0, email |-> 0, slack |-> 0]

\* the handler called on behalf of t has returned result (or raised)
\* in surroundings env
ReturnIn(t, entry, name, a, result, raised, ext, env) ==
    call' = [op |-> "tool", entry |-> entry, t |-> t, visitor |-> VisitorOf(t),
             name |-> name, args |-> a, result |-> result, raised |-> raised,
             ext |-> ext, env |-> env,
             before |-> [leads |-> leads, lead_link |-> lead_link]]

\* a handler that depends on no surroundings
NoEnv == <<>>

Return(t, entry, name, a, result, raised, ext) ==
    ReturnIn(t, entry, name, a, result, raised, ext, NoEnv)

\* the audit row the generator writes after a handler: {tool, arguments, result}
Audit(S, v, name, a, result) ==
    AddMessage(S, ConvOf(S, v), "tool", [tool |-> name, arguments |-> a, result |-> result])

\* arguments the provider may pass to save_lead
LeadArgs ==
    { [email |-> "e1", name |-> "x", budget_max |-> 20000, authority |-> "dm"],
      [email |-> "e1", company |-> "y", timeline |-> Timeline(<<2>>, "week")],
      [email |-> "e1", name |-> "", budget_min |-> 0],
      [email |-> "e1", budget_min |-> 500, score |-> 150, status |-> "vip"],
      [email |-> "e2", project_summary |-> "p", score |-> 0 - 5],
      [name |-> "x", company |-> "y"] }

\* a plausible slip: the email is not required
MissingEmailIgnored(a) == FALSE

\* email = args.get("email"); if not email
MissingEmail(a) == Falsy("email", Get(a, "email"))

\* save_lead up to the query: the email test and the lookup. The handler is a
\* plain call inside the generator, so no other generator runs while it does;
\* the chat route is a sync route on the thread pool and does interleave
SaveLeadBegin(t, a) ==
    LET v == VisitorOf(t)
        email == Get(a, "email")
    IN
    /\ pending[t].at = "idle"
    /\ \A u \in Requests : pending[u].entry # "ws"
    /\ nrounds < MaxCalls
    /\ nrounds' = nrounds + 1
    /\ IF MissingEmail(a)
         THEN LET result == Envelope(FALSE, "Email is required") IN
              /\ Return(t, "ws", "save_lead", a, result, FALSE, NoCollaborator)
              /\ SetStore(Audit(Store, v, "save_lead", a, result))
              /\ UNCHANGED pending
         ELSE LET id == FindLead(leads, email) IN
              /\ pending' = [pending EXCEPT ![t] =
                     [at |-> "found", entry |-> "ws", data |-> a, lead |-> id,
                      read |-> IF id = 0 THEN NewLead(email) ELSE leads[id]]]
              /\ UNCHANGED <<storeVars, call>>
    /\ UNCHANGED <<connVars, nchunks, nfaults, nappends, leads, lead_link>>

\* a plausible slip: no rollback, so the pending Lead stays in the session and
\* goes out with the session's next commit
NoRollback(now, pending_rows) == pending_rows

\* db.rollback(): the session's pending change is discarded
Rollback(now, pending_rows) == now

\* save_lead from the field updates on: the commit of the Lead, then the
\* commit of the conversation's link; an exception rolls back and is reported
SaveLeadCommit(t, d1, d2) ==
    LET v == VisitorOf(t)
        p == pending[t]
        new == SaveLeadRow(p.read, p.data)
        id == IF p.lead = 0 THEN Len(leads) + 1 ELSE p.lead
        saved == IF p.lead = 0 THEN Append(leads, new)
                 ELSE [leads EXCEPT ![p.lead] = Flush(@, p.read, new)]
        failure == Envelope(FALSE, "Lead save failed")
        success == [Envelope(TRUE, "") EXCEPT !.lead_id = id, !.score = new.score,
                                             !.status = new.status]
        result == IF d1 # "ok" \/ (lead_link[v] # id /\ d2 # "ok") THEN failure ELSE success
        \* the outcomes of the commits that were executed
        env == [lead |-> d1, link |-> IF d1 = "ok" /\ lead_link[v] # id THEN d2 ELSE "ok"]
    IN
    /\ p.at = "found" /\ p.entry = "ws"
    /\ leads' = IF d1 # "ok" THEN Rollback(leads, saved) ELSE saved
    /\ lead_link' = IF d1 = "ok" /\ d2 = "ok" THEN [lead_link EXCEPT ![v] = id] ELSE lead_link
    /\ ReturnIn(t, "ws", "save_lead", p.data, result, FALSE, NoCollaborator, env)
    /\ SetStore(Audit(Store, v, "save_lead", p.data, result))
    /\ pending' = [pending EXCEPT ![t] = Idle]
    /\ UNCHANGED <<connVars, countVars>>

\* how the Slack webhook would answer a post
SlackEnvs == [slack : {"ok", "non2xx", "transport"}]

\* notify_team: returns before its try block, so the webhook is never posted to
notify_team(a, env) ==
    [result |-> Envelope(TRUE, ""), raised |-> FALSE, ext |-> NoCollaborator]

\* the dispatch of notify_team or of a name that is no tool
Dispatch(t, name, env) ==
    LET v == VisitorOf(t)
        a == <<>>
        r == IF name = "notify_team" THEN notify_team(a, env)
             ELSE [result |-> Envelope(FALSE, "Unknown tool"), raised |-> FALSE,
                   ext |-> NoCollaborator]
    IN
    /\ name \notin {"book_meeting", "save_lead"}
    /\ pending[t].at = "idle"
    /\ nrounds < MaxCalls
    /\ nrounds' = nrounds + 1
    /\ ReturnIn(t, "ws", name, a, r.result, r.raised, r.ext,
                IF name = "notify_team" THEN env ELSE NoEnv)
    /\ SetStore(Audit(Store, v, name, a, r.result))
    /\ UNCHANGED <<connVars, nchunks, nfaults, nappends, leads, lead_link, pending>>

(* ----------------------------- book_meeting ---------------------------- *)
\* arguments the provider may pass to book_meeting: "iso" is a timestamp
\* fromisoformat accepts, "bad" one it rejects, "num" a JSON number
MeetingArgs ==
    { [start_iso |-> "iso", end_iso |-> "iso", attendee_email |-> "e1"],
      [start_iso |-> "bad", end_iso |-> "iso", attendee_email |-> "e1"],
      [start_iso |-> "iso", end_iso |-> "bad", attendee_email |-> "e1"],
      [start_iso |-> "num", end_iso |-> "iso", attendee_email |-> "e1"],
      [start_iso |-> "", end_iso |-> "iso", attendee_email |-> "e1"],
      [end_iso |-> "iso", attendee_email |-> "e1"],
      [start_iso |-> "iso", attendee_email |-> "e1"],
      [start_iso |-> "iso", end_iso |-> "iso"] }

\* what surrounds a booking: the credentials file, the two calendar inserts
\* (with and without a conferencing request) and the confirmation email
MeetingEnvs ==
    { e \in [creds : {"absent", "invalid", "ok"}, cal1 : {"ok", "fail"},
             cal2 : {"ok", "fail"}, mail : {"ok", "fail"}] :
        \* a part that is never consulted is left at "ok"
        /\ e.creds # "ok" => e.cal1 = "ok" /\ e.mail = "ok"
        /\ e.cal1 = "ok" => e.cal2 = "ok"
        /\ e.cal2 = "fail" => e.mail = "ok" }

\* the three required arguments are present and true
HasRequired(a) ==
    /\ ~Falsy("start_iso", Get(a, "start_iso"))
    /\ ~Falsy("end_iso", Get(a, "end_iso"))
    /\ ~Falsy("attendee_email", Get(a, "attendee_email"))

\* a plausible slip: the timestamps are not checked before booking
TimestampsUnchecked(a) == "fine"

\* the two fromisoformat calls: "fine", "ValueError", or "AttributeError" when
\* a timestamp is no string
Timestamps(a) ==
    IF a.start_iso = "num" THEN "AttributeError"
    ELSE IF a.start_iso = "bad" THEN "ValueError"
    ELSE IF a.end_iso = "num" THEN "AttributeError"
    ELSE IF a.end_iso = "bad" THEN "ValueError"
    ELSE "fine"

\* a plausible slip: the credentials file is taken to be there
CredentialsAssumed(env) == FALSE

\* not creds_path or not os.path.exists(creds_path)
NoCredentials(env) == env.creds = "absent"

\* _simulate_meeting: a synthetic event and the simulation-mode message
simulate_meeting ==
    [Envelope(TRUE, "") EXCEPT !.event_id = "demo-event-123", !.simulated = TRUE]

\* send_email: the SMTP send in a try, any exception becomes False
send_email(env) == [raised |-> FALSE, returned |-> env.mail = "ok"]

\* send_meeting_confirmation: builds the text and returns what send_email
\* returned; its own except returns False as well
send_meeting_confirmation(env) == send_email(env)

\* a plausible slip: a failed insert is not tried again
InsertEventOnce(env) == [attempts |-> 1, created |-> env.cal1 = "ok"]

\* the insert with a conferencing request and, when it raises, the one insert
\* without it: how many inserts were executed and whether one returned an event
InsertEvent(env) ==
    IF env.cal1 = "ok" THEN [attempts |-> 1, created |-> TRUE]
    ELSE [attempts |-> 2, created |-> env.cal2 = "ok"]

\* book_meeting: what it returns or raises and which collaborators it calls
book_meeting(a, env) ==
    LET out(result, raised, calendar, email) ==
            [result |-> result, raised |-> raised,
             ext |-> [calendar |-> calendar, email |-> email, slack |-> 0]]
        booked == [Envelope(TRUE, "") EXCEPT !.event_id = "created",
                                            !.email_sent =
                                                <<~send_meeting_confirmation(env).raised>>]
    IN
    IF ~HasRequired(a)
      THEN out(Envelope(FALSE, "Missing required fields"), FALSE, 0, 0)
    ELSE IF Timestamps(a) = "ValueError"
      THEN out(Envelope(FALSE, "Invalid datetime format"), FALSE, 0, 0)
    ELSE IF Timestamps(a) = "AttributeError"
      THEN out(Envelope(FALSE, "AttributeError"), TRUE, 0, 0)
    ELSE IF NoCredentials(env)
      THEN out(simulate_meeting, FALSE, 0, 0)
    ELSE IF env.creds = "invalid"
      THEN out(Envelope(FALSE, "Invalid credentials file"), FALSE, 0, 0)
    ELSE IF InsertEvent(env).created THEN out(booked, FALSE, InsertEvent(env).attempts, 1)
    ELSE out(Envelope(FALSE, "Calendar booking failed"), FALSE, InsertEvent(env).attempts, 0)

\* the dispatch of book_meeting: the handler (an exception becomes a failed
\* envelope), then the audit row
BookMeeting(t, a, env) ==
    LET v == VisitorOf(t)
        r == book_meeting(a, env)
    IN
    /\ pending[t].at = "idle"
    /\ nrounds < MaxCalls
    /\ nrounds' = nrounds + 1
    /\ ReturnIn(t, "ws", "book_meeting", a, r.result, r.raised, r.ext, env)
    /\ SetStore(Audit(Store, v, "book_meeting", a, r.result))
    /\ UNCHANGED <<connVars, nchunks, nfaults, nappends, leads, lead_link, pending>>

(* ---------------------------- the chat route ---------------------------- *)
\* the reply of the route when the provider sends no text
DoneText == <<"D">>

\* a request whose tool call is not save_lead, or whose arguments json.loads
\* rejects (wf false): the user turn, the tool loop, the assistant turn
ChatTool(t, name, wf) ==
    LET v == VisitorOf(t)
        S1 == PushMessage(Store, v, "user", <<"h">>, "ok", "ok")
        result == IF name \in {"book_meeting", "notify_team"} THEN Envelope(TRUE, "")
                  ELSE Envelope(FALSE, "Unknown tool")
    IN
    /\ name # "save_lead" \/ ~wf
    /\ pending[t].at = "idle"
    /\ nrounds < MaxCalls
    /\ nrounds' = nrounds + 1
    /\ IF wf
         THEN /\ Return(t, "http", name, <<>>, result, FALSE, NoCollaborator)
              /\ SetStore(PushMessage(S1, v, "assistant", DoneText, "ok", "ok"))
         ELSE /\ call' = [op |-> "json.loads", entry |-> "http", t |-> t, name |-> name,
                          raised |-> TRUE]
              /\ SetStore(S1)
    /\ UNCHANGED <<connVars, nchunks, nfaults, nappends, leads, lead_link, pending>>

\* a request whose tool call is save_lead, up to the lookup by email
ChatSaveLead(t, a) ==
    LET v == VisitorOf(t)
        email == Get(a, "email")
        id == IF Falsy("email", email) THEN 0 ELSE FindLead(leads, email)
    IN
    /\ pending[t].at = "idle"
    /\ nrounds < MaxCalls
    /\ nrounds' = nrounds + 1
    /\ SetStore(PushMessage(Store, v, "user", <<"h">>, "ok", "ok"))
    /\ pending' = [pending EXCEPT ![t] =
           [at |-> "found", entry |-> "http", data |-> a, lead |-> id,
            read |-> IF id = 0 THEN NewLead(email) ELSE leads[id]]]
    /\ UNCHANGED <<connVars, nchunks, nfaults, nappends, leads, lead_link, call>>

\* the rest of that request: the assignments, the commit, the assistant turn
ChatCommit(t, d) ==
    LET v == VisitorOf(t)
        p == pending[t]
        new == ChatLeadRow(p.read, p.data)
        id == IF p.lead = 0 THEN Len(leads) + 1 ELSE p.lead
        saved == IF p.lead = 0 THEN Append(leads, new)
                 ELSE [leads EXCEPT ![p.lead] = Flush(@, p.read, new)]
        success == [Envelope(TRUE, "") EXCEPT !.lead_id = id, !.score = new.score,
                                             !.status = new.status]
    IN
    /\ p.at = "found" /\ p.entry = "http"
    /\ IF d = "ok"
         THEN /\ leads' = saved
              /\ Return(t, "http", "save_lead", p.data, success, FALSE, NoCollaborator)
              /\ SetStore(PushMessage(Store, v, "assistant", DoneText, "ok", "ok"))
         ELSE /\ leads' = leads
              /\ Return(t, "http", "save_lead", p.data, Envelope(FALSE, "commit"), TRUE,
                        NoCollaborator)
              /\ UNCHANGED storeVars
    /\ pending' = [pending EXCEPT ![t] = Idle]
    /\ UNCHANGED <<connVars, countVars, lead_link>>

(* ------------------------- handlers on their own ------------------------ *)
\* both visitors have sent a first message
InitServing ==
    LET S0 == [cache |-> [v \in Visitors |-> <<>>], expiry |-> [v \in Visitors |-> <<>>],
               conversations |-> <<>>, messages |-> <<>>]
        S1 == PushMessage(S0, "A", "user", <<"h">>, "ok", "ok")
        S2 == PushMessage(S1, "B", "user", <<"h">>, "ok", "ok")
    IN
    /\ pc = [c \in Conns |-> "idle"]
    /\ visitor = [c \in Conns |-> IF c = "c1" THEN "A" ELSE "B"]
    /\ events = [c \in Conns |-> <<>>]
    /\ user_msg = [c \in Conns |-> <<>>]
    /\ conversation = [c \in Conns |-> 0]
    /\ prompt = [c \in Conns |-> <<>>]
    /\ consumed = [c \in Conns |-> <<>>]
    /\ collected_text = [c \in Conns |-> <<>>]
    /\ tool_calls_data = [c \in Conns |-> <<>>]
    /\ pos = [c \in Conns |-> 1]
    /\ args = [c \in Conns |-> {}]
    /\ invoked = [c \in Conns |-> <<>>]
    /\ appended = [c \in Conns |-> <<>>]
    /\ mark = [c \in Conns |-> [cache |-> 0, messages |-> 0, faults |-> 0]]
    /\ after_failure = [c \in Conns |-> FALSE]
    /\ failed = 0
    /\ cache = S2.cache
    /\ expiry = S2.expiry
    /\ conversations = S2.conversations
    /\ messages = S2.messages
    /\ nrounds = 0
    /\ nchunks = 0
    /\ nfaults = 0
    /\ nappends = 0
    /\ leads = <<>>
    /\ lead_link = [v \in Visitors |-> 0]
    /\ pending = [t \in Requests |-> Idle]

InitTools == InitServing /\ call = NoCall

NextTools ==
    \E t \in Requests :
        \/ \E name \in {"notify_team", "bogus"}, env \in SlackEnvs : Dispatch(t, name, env)
        \/ \E a \in MeetingArgs, env \in MeetingEnvs : BookMeeting(t, a, env)
        \/ \E name \in {"book_meeting", "save_lead", "notify_team", "bogus"}, wf \in BOOLEAN :
               ChatTool(t, name, wf)

\* tool calls other than save_lead, from the dispatch loop and from the chat route
SpecTools == InitTools /\ [][NextTools]_vars

NextLeads ==
    \E t \in Requests :
        \/ \E a \in LeadArgs : SaveLeadBegin(t, a)
        \/ \E d1 \in DbOutcomes, d2 \in DbOutcomes : SaveLeadCommit(t, d1, d2)
        \/ \E a \in LeadArgs : ChatSaveLead(t, a)
        \/ \E d \in DbOutcomes : ChatCommit(t, d)

\* save_lead called from the dispatch loop and from the chat route, the two
\* callers running at the same time
SpecLeads == InitTools /\ [][NextLeads]_vars

(* --------------------------- the dispatch loop -------------------------- *)
\* what the provider may ask for: a name and the text of its arguments
Requested ==
    { <<"save_lead", <<"{">>>>, <<"save_lead", <<"{", "e", "}">>>>,
      <<"book_meeting", <<"{", "}">>>>, <<"notify_team", <<"{", "}">>>>,
      <<"bogus", <<>>>> }

\* a final chunk that asks for one tool at index 0 or 1, or for two tools
DispatchChunks ==
    { Chunk(TRUE, <<>>, <<Delta(i, "id", f[1], f[2])>>, "tool_calls") :
        i \in {0, 1}, f \in Requested }
    \cup
    { Chunk(TRUE, <<>>, <<Delta(0, "id", f[1], f[2]), Delta(1, "id", g[1], g[2])>>, "tool_calls") :
        f \in Requested, g \in Requested }

NextDispatch ==
    \/ \E ch \in DispatchChunks : StreamChunk("c1", ch)
    \/ \E ro \in RedisOutcomes, do \in DbOutcomes, d3 \in DbOutcomes :
           Finalize("c1", ro, do, d3)
    \/ Announce("c1")
    \/ \E out \in {"ok", "fail", "raise", "unknown"}, d \in DbOutcomes : Exec("c1", out, d)
    \/ RoundComplete("c1")
    \/ Drop("c1")
    \/ \E name \in {"book_meeting", "save_lead", "notify_team", "bogus"}, wf \in BOOLEAN :
           ChatTool("t2", name, wf)

\* a round whose stream asks for tools only, from the stream loop on, next to
\* requests of the chat route for the other visitor
SpecDispatch == InitMerge /\ [][NextDispatch]_vars

\* the names of the named fragments up to position n, in order
RECURSIVE NamesUpTo(_, _)
NamesUpTo(tcd, n) ==
    IF n = 0 THEN <<>>
    ELSE IF tcd[n].name # "" THEN Append(NamesUpTo(tcd, n - 1), tcd[n].name)
    ELSE NamesUpTo(tcd, n - 1)

\* the events of type t in E, in order
RECURSIVE EventsOf(_, _)
EventsOf(E, t) ==
    IF E = <<>> THEN <<>>
    ELSE IF Head(E).type = t THEN <<Head(E)>> \o EventsOf(Tail(E), t)
    ELSE EventsOf(Tail(E), t)

NamesOf(E) == [i \in 1..Len(E) |-> E[i].name]

\* no store fault has occurred since the round of c began
NoFaultInRound(c) == nfaults = mark[c].faults

(* ------------------------------- C13 ----------------------------------- *)
\* C13: a tool call whose handler returns a failed envelope or raises gets a
\* tool_result with ok false and the dispatch loop goes on: as long as no
\* store fault occurs, the tools announced are the named fragments visited so
\* far, each answered in turn, and the round ends with round_complete and
\* without an error event.
C13_FailedToolContinues ==
    \A c \in Conns :
        /\ (pc[c] = "dispatch" /\ pos[c] > 1 /\ NoFaultInRound(c)
                /\ call.op = "tool" /\ call.entry = "ws" =>
                LET last == events[c][Len(events[c])] IN
                /\ last.type = "tool_result"
                /\ last.name = call.name
                /\ last.ok = (call.out = "ok"))
        /\ (pc[c] \in {"dispatch", "gen_end"} /\ NoFaultInRound(c) /\ user_msg[c] # <<>> =>
                /\ NamesOf(EventsOf(events[c], "tool_result"))
                       = NamesUpTo(tool_calls_data[c], pos[c] - 1)
                /\ NamesOf(EventsOf(events[c], "tool")) = NamesOf(EventsOf(events[c], "tool_result"))
                /\ ~HasType(events[c], "error"))
        /\ (pc[c] = "gen_end" /\ NoFaultInRound(c) /\ user_msg[c] # <<>> =>
                NamesOf(EventsOf(events[c], "tool_result"))
                    = NamesUpTo(tool_calls_data[c], Len(tool_calls_data[c])))
        /\ (pc[c] = "idle" /\ NoFaultInRound(c) /\ user_msg[c] # <<>> =>
                events[c][Len(events[c])].type = "round_complete")

\* a handler raised, its tool_result said ok false, the next tool was
\* dispatched and the round completed
C13_Witness ==
    LET E == events["c1"] IN
    /\ pc["c1"] = "idle"
    /\ Len(E) = 5
    /\ E[2].type = "tool_result" /\ E[2].name = "book_meeting" /\ ~E[2].ok
    /\ E[4].type = "tool_result" /\ E[4].name = "notify_team" /\ E[4].ok
    /\ E[5].type = "round_complete"

(* ------------------------------- C14 ----------------------------------- *)
\* the entries of seq that are tool names
RECURSIVE KnownOnly(_)
KnownOnly(seq) ==
    IF seq = <<>> THEN <<>>
    ELSE IF Head(seq) \in KnownTools THEN <<Head(seq)>> \o KnownOnly(Tail(seq))
    ELSE KnownOnly(Tail(seq))

\* C14: a dispatched name that is none of the three tools is answered with
\* ok false and an unknown-tool error: in a round no handler is invoked for
\* it and the round goes on without an error event; in the chat route the
\* request does not raise, calls no collaborator and leaves the Lead store
\* and the lead links as they were.
C14_UnknownTool ==
    /\ \A c \in Conns :
          pc[c] \in {"dispatch", "gen_end"} /\ NoFaultInRound(c) /\ user_msg[c] # <<>> =>
              LET R == EventsOf(events[c], "tool_result") IN
              /\ \A i \in 1..Len(R) : R[i].name \notin KnownTools => ~R[i].ok
              /\ invoked[c] = KnownOnly(NamesOf(R))
              /\ ~HasType(events[c], "error")
    /\ call.op = "tool" /\ call.name \notin KnownTools =>
          IF call.entry = "http"
            THEN /\ ~call.result.ok
                 /\ call.result.error = "Unknown tool"
                 /\ ~call.raised
                 /\ call.ext = NoCollaborator
                 /\ leads = call.before.leads
                 /\ lead_link = call.before.lead_link
            ELSE call.out = "unknown"

\* a round dispatched an unknown name and then notify_team and completed,
\* and a request of the chat route has answered an unknown name
C14_Witness ==
    LET E == events["c1"] IN
    /\ pc["c1"] = "idle"
    /\ Len(E) = 5
    /\ E[2].type = "tool_result" /\ E[2].name = "bogus" /\ ~E[2].ok
    /\ E[4].type = "tool_result" /\ E[4].name = "notify_team" /\ E[4].ok
    /\ E[5].type = "round_complete"
    /\ call.op = "tool" /\ call.entry = "http" /\ call.name = "bogus"

(* ------------------------------- C15 ----------------------------------- *)
\* the tool names of the successful tool_result events of E, in order
RECURSIVE Succeeded(_)
Succeeded(E) ==
    IF E = <<>> THEN <<>>
    ELSE IF Head(E).type = "tool_result" /\ Head(E).ok
      THEN <<Head(E).name>> \o Succeeded(Tail(E))
    ELSE Succeeded(Tail(E))

\* the tool names of the tool-role entries of h (cache turns or log rows)
\* that record a success, from position from + 1 on, in order
RECURSIVE ToolTurns(_, _)
ToolTurns(h, from) ==
    IF from >= Len(h) THEN <<>>
    ELSE LET x == h[from + 1] IN
         IF x.role = "tool" /\ x.content[4]
           THEN <<x.content[2]>> \o ToolTurns(h, from + 1)
         ELSE ToolTurns(h, from + 1)

\* the rows of the durable log that belong to conversation cv
RECURSIVE RowsOfConv(_, _)
RowsOfConv(rows, cv) ==
    IF rows = <<>> THEN <<>>
    ELSE IF Head(rows).conv = cv THEN <<Head(rows)>> \o RowsOfConv(Tail(rows), cv)
    ELSE RowsOfConv(Tail(rows), cv)

\* C15: the successful tool executions of a round are, in dispatch order,
\* the tool-role turns the round has added to the visitor's cached history
\* and to the visitor's durable log.
C15_ToolTurnsStored ==
    \A c \in Conns :
        pc[c] \in {"dispatch", "gen_end"} /\ NoFaultInRound(c) /\ user_msg[c] # <<>> =>
            /\ ToolTurns(cache[visitor[c]], mark[c].cache) = Succeeded(events[c])
            /\ ToolTurns(RowsOfConv(messages, conversation[c]), 0) = Succeeded(events[c])

(* ------------------------ one Lead per email value ---------------------- *)
\* the ids of the Leads that hold email e
LeadsWith(e) == { i \in 1..Len(leads) : leads[i].email = <<e>> }

Emails == {"e1", "e2"}

\* C16: after any interleaving of save-lead operations from either entry
\* point, the Lead store holds at most one Lead per email value
C16_OneLeadPerEmail ==
    \A e \in Emails : Cardinality(LeadsWith(e)) <= 1

(* -------------------------- non-destructive merge ----------------------- *)
\* a save_lead call has just returned success
LeadSaved == call.op = "tool" /\ call.name = "save_lead" /\ call.result.ok

\* the call that just returned found its Lead in the store
Existing == call.result.lead_id <= Len(call.before.leads)

\* the value field k of that Lead held before the call
PriorValue(k) == call.before.leads[call.result.lead_id].f[k]

\* C17: after a successful save_lead into an existing Lead, each of the seven
\* fields holds the argument's value when the field was provided and the
\* prior stored value when it was absent
C17_NonDestructiveMerge ==
    LeadSaved /\ Existing =>
        \A k \in FieldNames :
            leads[call.result.lead_id].f[k] =
                IF k \in DOMAIN call.args THEN <<call.args[k]>> ELSE PriorValue(k)

(* --------------------------- score and status --------------------------- *)
Statuses == {"hot", "warm", "cold", "new"}

\* C18: every persisted Lead has a score within 0..100 and a status among
\* hot, warm, cold and new, whatever arguments the saves were given
C18_ScoreAndStatusInRange ==
    \A i \in 1..Len(leads) :
        /\ leads[i].score # None /\ leads[i].score[1] \in 0..100
        /\ leads[i].status # None /\ leads[i].status[1] \in Statuses

(* --------------------------- save_lead, no email ------------------------ *)
\* the dispatch loop's save_lead has just returned from a call without email
SavedWithoutEmail ==
    /\ call.op = "tool" /\ call.entry = "ws" /\ call.name = "save_lead"
    /\ Falsy("email", Get(call.args, "email"))

BadMeetingArgs(a) ==
    \/ Get(a, "start_iso") \in {None, <<"">>, <<"bad">>, <<"num">>}
    \/ Get(a, "end_iso") \in {None, <<"">>, <<"bad">>, <<"num">>}
    \/ Get(a, "attendee_email") \in {None, <<"">>}

\* the dispatch loop's book_meeting has just returned from such a call
BookedBadly ==
    /\ call.op = "tool" /\ call.entry = "ws" /\ call.name = "book_meeting"
    /\ BadMeetingArgs(call.args)

\* the audit rows of book_meeting
MeetingRows ==
    { i \in 1..Len(messages) :
        messages[i].role = "tool" /\ messages[i].content.tool = "book_meeting" }

GoodMeetingArgs(a) ==
    /\ Get(a, "start_iso") = <<"iso">>
    /\ Get(a, "end_iso") = <<"iso">>
    /\ Get(a, "attendee_email") \notin {None, <<"">>}

\* the dispatch loop's book_meeting has just returned from a call with good
\* arguments
Booked ==
    /\ call.op = "tool" /\ call.entry = "ws" /\ call.name = "book_meeting"
    /\ GoodMeetingArgs(call.args)

EventCreated == Booked /\ call.result.ok /\ call.result.event_id = "created"

\* C22: after a successful calendar booking the result is ok, and its
\* email_sent flag is true exactly when the email collaborator reported success
C22_EmailSentIsTruthful ==
    EventCreated =>
        /\ call.result.ok
        /\ call.result.email_sent = <<call.env.mail = "ok">>

(* ------------------------------ notify_team ----------------------------- *)
\* the dispatch loop's notify_team has just returned
Notified == call.op = "tool" /\ call.entry = "ws" /\ call.name = "notify_team"

\* C23: notify_team answers ok false when the messaging collaborator answers
\* with a non-2xx status or the transport fails, answers ok true only when the
\* message was delivered to the collaborator, and never raises
C23_NotifyReportsDelivery ==
    Notified =>
        /\ ~call.raised
        /\ call.env.slack # "ok" => ~call.result.ok /\ call.result.error # ""
        /\ call.result.ok => call.ext.slack = 1 /\ call.env.slack = "ok"

(* --------------------------- scoring on its own ------------------------- *)
\* inputs to score_lead: around every threshold, below zero and very large
Budgets ==
    {0 - 1000, 0, 100, 2999, 3000, 4999, 5000, 9999, 10000, 10900, 11500, 20000, 1000000}

Days == {0 - 5, 0, 28, 29, 30, 31, 60, 61, 90, 91, 120, 121, 180, 181, 100000}

Authorities == {"dm", "DM", "influencer", "unknown", "no", "boss", ""}

Clarities == {0 - 10, 0, 12, 70, 100, 1000000}

ScoreInputs ==
    [budget_max : Budgets, timeline_days : Days, authority : Authorities,
     clarity_score : Clarities]

\* a caller is about to score some inputs
InitScore ==
    /\ InitServing
    /\ call \in { [op |-> "args", args |-> x] : x \in ScoreInputs }

\* score_lead is called on the inputs at hand, for the first time or again
ScoreLead ==
    /\ call.op \in {"args", "score_lead"}
    /\ nrounds < MaxCalls
    /\ nrounds' = nrounds + 1
    /\ call' = [op |-> "score_lead", args |-> call.args,
                score |-> score_lead(call.args.budget_max, call.args.timeline_days,
                                     call.args.authority, call.args.clarity_score)]
    /\ UNCHANGED <<connVars, storeVars, nchunks, nfaults, nappends, leads, lead_link, pending>>

NextScore == ScoreLead

SpecScore == InitScore /\ [][NextScore]_vars

\* C24: for all integer budget_max, timeline_days and clarity and every
\* authority string, score_lead returns an integer in 0..100, and a repeated
\* call on the same inputs returns the same score
C24_ScoreInRangeAndDetermined ==
    /\ [](call.op = "score_lead" => call.score \in 0..100)
    /\ [][call.op = "score_lead" /\ call'.args = call.args => call'.score = call.score]_vars

\* a very large budget and clarity with an unrecognised authority were scored twice
C24_Witness ==
    /\ call.op = "score_lead" /\ nrounds = 2
    /\ call.args.budget_max = 1000000 /\ call.args.clarity_score = 1000000
    /\ call.args.authority = "boss" /\ call.args.timeline_days = 0 - 5
    /\ call.score = 88

(* ------------------------------ score buckets --------------------------- *)
\* budget buckets: < 3000, 3000..4999, 5000..9999, >= 10000
BudgetBucket(b) == IF b < 3000 THEN 1 ELSE IF b < 5000 THEN 2 ELSE IF b < 10000 THEN 3 ELSE 4

\* timeline buckets: <= 28, 29..60, 61..120, > 120
TimelineBucket(t) == IF t <= 28 THEN 1 ELSE IF t <= 60 THEN 2 ELSE IF t <= 120 THEN 3 ELSE 4

\* C25: two calls of score_lead with equal authority and clarity whose
\* budgets fall in the same budget bucket and whose timelines fall in the same
\* timeline bucket return the same score, and a shorter timeline bucket never
\* scores lower than a longer one
C25_ScoreStepsByBucket ==
    call.op = "score_lead" =>
        \A b \in Budgets, t \in Days :
            LET other == score_lead(b, t, call.args.authority, call.args.clarity_score) IN
            /\ (/\ BudgetBucket(b) = BudgetBucket(call.args.budget_max)
                /\ TimelineBucket(t) = TimelineBucket(call.args.timeline_days))
                   => other = call.score
            /\ (/\ b = call.args.budget_max
                /\ TimelineBucket(t) < TimelineBucket(call.args.timeline_days))
                   => other >= call.score

(* ------------------------- one round per visitor ------------------------ *)
\* both channels were opened with the same visitor_id in their path
InitShared == InitIdle /\ visitor = [c \in Conns |-> "A"]

\* two channels of one visitor over the shared stores
SpecShared == InitShared /\ [][NextTwo]_vars

\* a round of channel c is in progress
InProgress(c) == pc[c] \in Running

\* C26: for any visitor_id at most one round is in progress at any time
C26_OneRoundPerVisitor ==
    \A c \in Conns, d \in Conns :
        c # d /\ visitor[c] = visitor[d] => ~(InProgress(c) /\ InProgress(d))

(* --------------------------- visitors are apart ------------------------- *)
\* the rounds of both channels, and clear_history called for visitor A
NextFrame ==
    \/ NextTwo
    \/ \E ro \in RedisOutcomes : CacheClear("A", ro)

SpecFrame == Init /\ [][NextFrame]_vars

\* what the stores hold for visitor v: the cached history, the conversation
\* record and its lead link, and the rows of the durable log
Holding(v) ==
    [cache |-> cache[v],
     conversation |-> IF HasConv(Store, v) THEN ConvOf(Store, v) ELSE 0,
     lead |-> lead_link[v],
     rows |-> RowsOf(v)]

\* the handler and the generator of channel c take no step
Unmoved(c) ==
    /\ pc'[c] = pc[c] /\ events'[c] = events[c] /\ consumed'[c] = consumed[c]
    /\ pos'[c] = pos[c] /\ user_msg'[c] = user_msg[c]

\* C27: under any interleaving of the two visitors' rounds, every step taken
\* for visitor A (a step of A's round or a Session Store operation for A)
\* leaves B's cached history, conversation record and durable messages unchanged
C27_OtherVisitorUntouched ==
    [][Unmoved("c2") => Holding("B")' = Holding("B")]_vars

\* visitor A's round has written its turns and A's history was then cleared
\* while a round of visitor B, begun before, is still streaming
C27_Witness ==
    /\ pc["c2"] = "stream" /\ cache["B"] # <<>> /\ RowsOf("B") # <<>>
    /\ pc["c1"] = "idle" /\ HasType(events["c1"], "done")
    /\ cache["A"] = <<>> /\ RowsOf("A") # <<>>
    /\ ConvOf(Store, "B") = 1

(* ----------------------------- clear_history ---------------------------- *)
\* this step is a call of clear_history that returned True
Cleared == call'.op = "clear_history" /\ call' # call /\ call'.ok

\* channel c is in the round that began right after the last clear of its
\* visitor's history, which was made between two rounds
FirstRoundAfterClear(c) ==
    /\ call.op = "clear_history" /\ call.ok /\ call.idle
    /\ call.visitor = visitor[c]
    /\ nrounds = call.rounds + 1
    /\ pc[c] \in Running /\ prompt[c] # <<>>

\* C28: clear(visitor_id) makes the visitor's history empty and leaves the
\* durable log and every other visitor's cache entry unchanged; the prompt of
\* the visitor's next round holds no turn but those of that round
C28_ClearKeepsLog ==
    /\ [][Cleared =>
             /\ cache'[call'.visitor] = <<>>
             /\ conversations' = conversations /\ messages' = messages
             /\ \A w \in Visitors \ {call'.visitor} : cache'[w] = cache[w]]_vars
    /\ [](\A c \in Conns : FirstRoundAfterClear(c) =>
             \A i \in 1..Len(prompt[c]) : prompt[c][i] = Turn("user", user_msg[c]))

\* visitor A, with the turns of an earlier round in the log, began a round
\* right after a clear
C28_Witness ==
    /\ FirstRoundAfterClear("c1")
    /\ Len(RowsOf("A")) > 3
    /\ Len(prompt["c1"]) = 2

(* ------------------------------ key expiry ------------------------------ *)
\* the redis outcomes of one push_message, the failure of expire included
PushOutcomes == RedisOutcomes \cup {"expire"}

HalfWindow == HISTORY_TTL \div 2

\* half a retention window passes: every key with an expiry comes that much
\* nearer to it, and a key whose time is up is deleted by redis
Elapse ==
    /\ \E v \in Visitors : expiry[v] # None
    /\ expiry' = [v \in Visitors |->
                     IF expiry[v] # None /\ expiry[v][1] > HalfWindow
                       THEN <<expiry[v][1] - HalfWindow>> ELSE None]
    /\ cache' = [v \in Visitors |->
                    IF expiry[v] # None /\ expiry[v][1] <= HalfWindow THEN <<>> ELSE cache[v]]
    /\ UNCHANGED <<connVars, conversations, messages, countVars, toolVars>>

NextExpiry ==
    \/ \E v \in Visitors, role \in {"user", "assistant"}, ro \in PushOutcomes,
          do \in DbOutcomes : Push(v, role, ro, do)
    \/ Elapse

\* appends to the histories of two visitors while time passes
SpecExpiry == Init /\ [][NextExpiry]_vars

\* C29: every append resets the key's expiry to the full retention window,
\* and no non-empty cache key ever exists without an expiry set (so that a key
\* left alone for a whole window expires)
C29_EveryKeyExpires ==
    /\ [][\A v \in Visitors :
             Len(cache'[v]) > Len(cache[v]) => expiry'[v] = <<HISTORY_TTL>>]_vars
    /\ [](\A v \in Visitors : cache[v] # <<>> => expiry[v] # None)

(* ----------------------------- empty message ---------------------------- *)
\* this step is the handling of an inbound message that is empty once stripped
EmptyReceived == nrounds' = nrounds + 1 /\ user_msg'["c1"] = <<>>

\* C30: an empty or whitespace-only inbound message produces exactly one
\* error event and nothing else: no append to the cache or the durable log, no
\* provider call, no other event; the channel then reads the next message
C30_EmptyMessageShortCircuits ==
    [][EmptyReceived =>
          /\ events'["c1"] = <<ErrorEv("empty")>>
          /\ UNCHANGED storeVars
          /\ prompt'["c1"] = <<>> /\ consumed'["c1"] = <<>> /\ nchunks' = nchunks
          /\ pc'["c1"] = "idle"]_vars

\* after a round that stored turns, an empty message was answered with the
\* one error event
C30_Witness ==
    /\ events["c1"] = <<ErrorEv("empty")>>
    /\ pc["c1"] = "idle" /\ nrounds = 2
    /\ cache["A"] # <<>> /\ messages # <<>>

(* --------------------------- order of dispatch -------------------------- *)
\* the indices of the deltas ds, each once, in the order they were first seen
FirstSeen(ds) ==
    LET F[k \in 0..Len(ds)] ==
            IF k = 0 THEN <<>>
            ELSE IF \E j \in 1..Len(F[k - 1]) : F[k - 1][j] = ds[k].index THEN F[k - 1]
            ELSE Append(F[k - 1], ds[k].index)
    IN F[Len(ds)]

\* the names of the named fragments of tcd whose indices are listed in is,
\* in the order of is
RECURSIVE NamesAt(_, _)
NamesAt(tcd, is) ==
    IF is = <<>> THEN <<>>
    ELSE IF tcd[Head(is) + 1].name # "" THEN <<tcd[Head(is) + 1].name>> \o NamesAt(tcd, Tail(is))
    ELSE NamesAt(tcd, Tail(is))

IsPrefix(s, t) == Len(s) <= Len(t) /\ SubSeq(t, 1, Len(s)) = s

Dispatching == {"dispatch", "exec", "gen_end"}

\* the tools announced so far in the round of c, in order
Announced(c) == NamesOf(EventsOf(events[c], "tool"))

\* a tool is announced only when every tool announced before it has been
\* answered, and at most one announced tool is waiting for its result
OneAtATime ==
    /\ [](\A c \in Conns :
             Count(events[c], "tool") - Count(events[c], "tool_result") \in {0, 1})
    /\ [][\A c \in Conns :
             Count(events'[c], "tool") > Count(events[c], "tool") =>
                 Count(events[c], "tool") = Count(events[c], "tool_result")]_vars

\* C31 as stated: the tool calls of a round are dispatched in the order in
\* which their indices were first observed in the provider stream, one after
\* another, no two dispatches overlapping.
C31_DispatchInObservedOrder ==
    /\ [](\A c \in Conns :
             pc[c] \in Dispatching =>
                 IsPrefix(Announced(c),
                          NamesAt(tool_calls_data[c], FirstSeen(DeltasOf(consumed[c])))))
    /\ OneAtATime

\* C31 amended: the tool calls of a round are dispatched in ascending order of
\* their indices (their positions in the accumulated list), whatever the order
\* in which the indices were first observed, one after another, no two
\* dispatches overlapping; when the round ends without a failure every named
\* fragment has been dispatched.
C31_DispatchInIndexOrder ==
    /\ [](\A c \in Conns :
             pc[c] \in Dispatching =>
                 /\ IsPrefix(Announced(c),
                             NamesUpTo(tool_calls_data[c], Len(tool_calls_data[c])))
                 /\ pc[c] = "gen_end" /\ ~HasType(events[c], "error") /\ user_msg[c] # <<>> =>
                        Announced(c) = NamesUpTo(tool_calls_data[c], Len(tool_calls_data[c])))
    /\ OneAtATime

\* index 1 was observed before index 0 and the tool at index 0 was dispatched
\* before the tool at index 1
C31_Witness ==
    /\ pc["c1"] = "gen_end"
    /\ DeltasOf(consumed["c1"]) # <<>>
    /\ FirstSeen(DeltasOf(consumed["c1"])) = <<1, 0>>
    /\ Announced("c1") = <<"notify_team", "save_lead">>
    /\ Count(events["c1"], "tool_result") = 2

(* ---------------------- the steps of one dispatch ----------------------- *)
\* the generator of c resumes after "yield tool" and runs to its next yield
HandlerStep(c) == pc[c] = "exec" /\ pc'[c] \notin {"exec", "closed"}

\* the audit rows (tool-role rows) in the durable log
AuditRows(rows) == Cardinality({ i \in 1..Len(rows) : rows[i].role = "tool" })

\* C32: for each dispatched tool call the steps occur in this order: the tool
\* intent event, the handler, the tool_result event with the outcome, the
\* audit turn.  So the handler runs only for the tool announced last, its
\* tool_result is emitted once it has returned, whatever becomes of the audit
\* turn, and an audit turn is never stored without its tool_result.
C32_IntentHandlerResultAudit ==
    /\ [][\A c \in Conns :
             HandlerStep(c) =>
                 LET last == events[c][Len(events[c])] IN
                 /\ last.type = "tool"
                 /\ last.name = tool_calls_data[c][pos[c]].name]_vars
    /\ [][\A c \in Conns :
             HandlerStep(c) =>
                 LET E == events'[c] IN
                 \E i \in 1..Len(E) :
                     /\ i > Len(events[c])
                     /\ E[i].type = "tool_result"
                     /\ E[i].name = tool_calls_data[c][pos[c]].name]_vars
    /\ [][AuditRows(messages') > AuditRows(messages) =>
             \E c \in Conns :
                 Count(events'[c], "tool_result") = Count(events[c], "tool_result") + 1]_vars

(* -------------------------- unnamed fragments --------------------------- *)
\* the fragments of c that have no name
Unnamed(c) == { p \in 1..Len(tool_calls_data[c]) : tool_calls_data[c][p].name = "" }

\* the rows the durable log has gained since the round of c began
RowsSince(c) == SubSeq(messages, mark[c].messages + 1, Len(messages))

\* C33: a fragment whose name is still empty at dispatch time is dropped
\* silently: no tool event, tool_result event, handler invocation,
\* unknown-tool error or audit turn is made for it, and the named fragments of
\* the round are still dispatched, all of them when the round ends without a
\* failure.
C33_UnnamedDropped ==
    \A c \in Conns :
        pc[c] \in Dispatching /\ user_msg[c] # <<>> =>
            LET E == events[c]
                tcd == tool_calls_data[c]
                rows == RowsSince(c)
            IN /\ \A i \in 1..Len(E) : E[i].type \in {"tool", "tool_result"} => E[i].name # ""
               /\ pc[c] = "exec" => tcd[pos[c]].name # ""
               /\ \A i \in 1..Len(rows) : rows[i].role = "tool" => rows[i].content[2] # ""
               /\ Count(E, "tool") <= Len(tcd) - Cardinality(Unnamed(c))
               /\ Len(invoked[c]) <= Count(E, "tool")
               /\ pc[c] = "gen_end" /\ ~HasType(E, "error") =>
                      /\ Announced(c) = NamesUpTo(tcd, Len(tcd))
                      /\ Count(E, "tool_result") = Len(tcd) - Cardinality(Unnamed(c))
                      /\ AuditRows(rows) = Len(tcd) - Cardinality(Unnamed(c))

\* a round with named fragments at indices 0 and 2 and the unnamed slot 1
\* between them has ended: the two named ones were announced and answered, in
\* order, and two audit rows were written
C33_Witness ==
    /\ pc["c1"] = "gen_end"
    /\ ~HasType(events["c1"], "error")
    /\ Unnamed("c1") = {2}
    /\ Len(tool_calls_data["c1"]) = 3
    /\ Announced("c1") = <<"notify_team", "bogus">>
    /\ Count(events["c1"], "tool_result") = 2
    /\ AuditRows(RowsSince("c1")) = 2

(* ------------------------- unparseable arguments ------------------------ *)
\* the positions of the named fragments among the first n of tcd, in order
RECURSIVE NamedUpTo(_, _)
NamedUpTo(tcd, n) ==
    IF n = 0 THEN <<>>
    ELSE IF tcd[n].name # "" THEN Append(NamedUpTo(tcd, n - 1), n)
    ELSE NamedUpTo(tcd, n - 1)

\* the text is no JSON object: empty, truncated or otherwise malformed
Unparseable(text) ==
    ~(/\ Len(text) >= 2 /\ text[1] = "{" /\ text[Len(text)] = "}"
      /\ \A k \in 2..(Len(text) - 1) : text[k] = "e")

\* C34: a named fragment whose argument text cannot be parsed (empty or
\* truncated text included) is still announced and dispatched, with an empty
\* argument set, and the round goes on to the later fragments and to
\* round_complete: unless a store fault occurs the round has no error event.
C34_ParseFailureTolerated ==
    \A c \in Conns :
      /\ pc[c] = "idle" /\ user_msg[c] # <<>> /\ NoFaultInRound(c) =>
            events[c][Len(events[c])].type = "round_complete" /\ ~HasType(events[c], "error")
      /\ pc[c] \in Dispatching /\ user_msg[c] # <<>> =>
            LET tcd == tool_calls_data[c]
                T == EventsOf(events[c], "tool")
                N == NamedUpTo(tcd, Len(tcd))
            IN /\ Len(T) <= Len(N)
               /\ \A k \in 1..Len(T) :
                      /\ T[k].name = tcd[N[k]].name
                      /\ Unparseable(tcd[N[k]].arguments) => T[k].args = {}
               /\ pc[c] = "exec" /\ Unparseable(tcd[pos[c]].arguments) => args[c] = {}
               /\ NoFaultInRound(c) => ~HasType(events[c], "error")
               /\ NoFaultInRound(c) /\ pc[c] = "gen_end" =>
                      Len(T) = Len(N) /\ Count(events[c], "tool_result") = Len(N)

\* a round whose first tool came with truncated argument text has ended
\* without an error: that tool was announced with no arguments and answered,
\* and the tool after it was dispatched as well
C34_Witness ==
    LET tcd == tool_calls_data["c1"]
        E == events["c1"]
    IN /\ pc["c1"] = "gen_end"
       /\ ~HasType(E, "error")
       /\ Len(tcd) = 2
       /\ tcd[1].name = "save_lead" /\ tcd[1].arguments = <<"{">>
       /\ Len(E) = 4
       /\ E[1] = ToolEv("save_lead", {})
       /\ E[2].type = "tool_result"
       /\ E[3].type = "tool" /\ E[3].name = "notify_team"
       /\ E[4].type = "tool_result"

(* ------------------------- save_lead and the score ---------------------- *)
\* timeline texts, by the one-digit numbers they name and their unit:
\* "2 weeks", "2-3 weeks", "a few weeks", "3 months", "1 to 2 months",
\* "next month", "90 days", "soon" and ""
Timelines ==
    { Timeline(<<2>>, "week"), Timeline(<<2, 3>>, "week"), Timeline(<<>>, "week"),
      Timeline(<<3>>, "month"), Timeline(<<1, 2>>, "month"), Timeline(<<>>, "month"),
      Timeline(<<9, 0>>, "other"), Timeline(<<>>, "other"), Timeline(<<>>, "empty") }

\* arguments the provider may pass to save_lead for one Lead
TimelineArgs ==
    [email : {"e1"}, timeline : Timelines]
    \cup { [email |-> "e1", budget_max |-> 20000, authority |-> "dm"],
           [email |-> "e1", timeline |-> Timeline(<<2, 3>>, "week"), status |-> "vip"],
           [email |-> "e1", timeline |-> Timeline(<<2>>, "week"), score |-> 40] }

NextSaves ==
    \/ \E a \in TimelineArgs : SaveLeadBegin("t1", a)
    \/ \E d1 \in DbOutcomes, d2 \in DbOutcomes : SaveLeadCommit("t1", d1, d2)

\* save_lead called from the dispatch loop, one call after another
SpecSaves == InitTools /\ [][NextSaves]_vars

\* the dispatch loop's save_lead has just returned ok from a call that gave
\* no explicit score
ScoredBySaveLead ==
    /\ call.op = "tool" /\ call.entry = "ws" /\ call.name = "save_lead"
    /\ call.result.ok
    /\ "score" \notin DOMAIN call.args

\* the numbers of days the timeline text t stands for: 7 x a number of weeks
\* it names, 30 x a number of months it names, 60 when it is in neither unit
StatedDays(t) ==
    IF t = None THEN {60}
    ELSE LET numbers == { t[1].digits[k] : k \in 1..Len(t[1].digits) } IN
         IF t[1].unit = "week" THEN { 7 * n : n \in numbers }
         ELSE IF t[1].unit = "month" THEN { 30 * n : n \in numbers }
         ELSE {60}

\* the timeline text names a number of weeks or months, or is in neither unit
Definite(t) == StatedDays(t) # {}

\* C35: when save_lead is called without an explicit score, timeline_days is
\* (number of weeks) x 7 for a timeline in weeks, (number of months) x 30 for
\* one in months and 60 otherwise; the returned and the persisted score are
\* score_lead(budget_max, timeline_days, authority, 70), and without an
\* explicit status the status is status_from_score of that score.
C35_ScoreFromTimeline ==
    ScoredBySaveLead =>
        LET row == leads[call.result.lead_id]
            t == row.f["timeline"]
            budget_max == IF row.f["budget_max"] = None THEN 0 ELSE row.f["budget_max"][1]
            authority == IF row.f["authority"] = None THEN "unknown" ELSE row.f["authority"][1]
        IN Definite(t) =>
             \E timeline_days \in StatedDays(t) :
                 LET score == score_lead(budget_max, timeline_days, authority, 70) IN
                 /\ call.result.score = <<score>>
                 /\ row.score = <<score>>
                 /\ "status" \notin DOMAIN call.args =>
                        /\ call.result.status = <<status_from_score(score)>>
                        /\ row.status = <<status_from_score(score)>>

(* ----------------------- book_meeting, the retry ------------------------ *)
\* the dispatch loop's book_meeting has just returned from a call with good
\* arguments made with calendar credentials present
BookedWithCredentials == Booked /\ call.env.creds = "ok"

\* C36: with calendar credentials present, book_meeting first tries to create
\* the event with a conferencing request and, if that fails, tries exactly
\* once more without it: at most two creation attempts are made, a retry that
\* succeeds gives ok true, and a retry that fails gives {ok: false, error}
\* without raising and without the confirmation email being sent.
C36_RetryWithoutConferencing ==
    BookedWithCredentials =>
        /\ call.ext.calendar \in {1, 2}
        /\ call.ext.calendar = 2 <=> call.env.cal1 = "fail"
        /\ call.env.cal1 = "ok" => call.result.ok /\ call.result.event_id = "created"
        /\ call.env.cal1 = "fail" /\ call.env.cal2 = "ok" =>
               /\ call.result.ok /\ ~call.raised
               /\ call.result.event_id = "created"
               /\ call.ext.email = 1
        /\ call.env.cal1 = "fail" /\ call.env.cal2 = "fail" =>
               /\ ~call.result.ok /\ call.result.error # "" /\ ~call.raised
               /\ call.ext.email = 0

\* the insert with conferencing failed and the retry without it created the
\* event
C36_Witness ==
    /\ BookedWithCredentials
    /\ call.env.cal1 = "fail" /\ call.env.cal2 = "ok"
    /\ call.ext.calendar = 2
    /\ call.result.ok

(* ------------------- one Conversation for each visitor ------------------ *)
\* push_message called by the chat route for a user turn, up to its query: the
\* route is a sync route run on a worker thread, so what follows the query
\* runs when the thread is scheduled again
ChatPushQuery(t) ==
    LET v == VisitorOf(t)
        convo == IF HasConv(Store, v) THEN ConvOf(Store, v) ELSE 0
    IN
    /\ pending[t].at = "idle"
    /\ nrounds < MaxCalls
    /\ nrounds' = nrounds + 1
    /\ cache' = [cache EXCEPT ![v] = Append(@, Turn("user", <<"h">>))]
    /\ expiry' = [expiry EXCEPT ![v] = <<HISTORY_TTL>>]
    /\ pending' = [pending EXCEPT ![t] =
           [at |-> "queried", entry |-> "http", data |-> [convo |-> convo], lead |-> 0,
            read |-> <<>>]]
    /\ UNCHANGED <<connVars, conversations, messages, nchunks, nfaults, nappends,
                   leads, lead_link, call>>

\* the rest of that push_message: "if not convo" adds and commits a
\* Conversation, then the message row is added and committed
ChatPushInsert(t) ==
    LET v == VisitorOf(t)
        convo == pending[t].data.convo
        S1 == IF convo = 0 THEN [Store EXCEPT !.conversations = Append(@, v)] ELSE Store
        id == IF convo = 0 THEN Len(S1.conversations) ELSE convo
    IN
    /\ pending[t].at = "queried"
    /\ SetStore(AddMessage(S1, id, "user", <<"h">>))
    /\ pending' = [pending EXCEPT ![t] = Idle]
    /\ UNCHANGED <<connVars, countVars, leads, lead_link, call>>

NextConversations ==
    \/ \E c \in Conns, m \in UserPayloads, f \in BoundedReceiveFaults : ReceiveMessage(c, m, f)
    \/ \E c \in Conns : ContinueWith(c, TwoChunks)
    \/ \E t \in Requests : ChatPushQuery(t)
    \/ \E t \in Requests : ChatPushInsert(t)

\* messages arriving over the two channels and through the chat route
SpecConversations == Init /\ [][NextConversations]_vars

\* the Conversations of visitor v
ConversationsOf(v) == { i \in 1..Len(conversations) : conversations[i] = v }

\* v has sent a message and every write it caused has been carried out
HasSent(v) ==
    /\ cache[v] # <<>>
    /\ nfaults = 0
    /\ \A t \in Requests : pending[t].at = "idle"

\* C37: after any sequence and interleaving of rounds and appends, every
\* visitor that has sent a message has exactly one Conversation in the durable
\* store: it is created on the first message and never a second time.
C37_OneConversationPerVisitor ==
    \A v \in Visitors :
        /\ Cardinality(ConversationsOf(v)) <= 1
        /\ HasSent(v) => Cardinality(ConversationsOf(v)) = 1

(* ------------------------------ the prompt ------------------------------ *)
\* the visitor's cached history as it was when the round of c began
EarlierTurns(c) == SubSeq(cache[visitor[c]], 1, mark[c].cache)

\* C38: the prompt sent to the provider for a round is the fixed system
\* instructions, then the visitor's cached history of earlier turns in order,
\* then the new user turn, exactly once and as the final message (the system
\* message is the same in every prompt and is left out of the comparison).
C38_PromptIsHistoryThenTurn ==
    \A c \in Conns :
        pc[c] = "open" /\ NoFaultInRound(c) =>
            prompt[c] = Append(EarlierTurns(c), Turn("user", user_msg[c]))

(* -------------------- a stream without a finish signal ------------------ *)
\* none of the chunks pulled in the round of c carried a finish signal
NoFinish(c) ==
    \A i \in 1..Len(consumed[c]) :
        ~(consumed[c][i].choices /\ consumed[c][i].finish_reason \in {"stop", "tool_calls"})

\* the round of c has left the stream loop and no store fault has occurred
Finalizing(c) == pc[c] \in Dispatching /\ user_msg[c] # <<>> /\ NoFaultInRound(c)

\* what finalization does in the round of c: the stripped text, when there is
\* any, is stored and emitted as done, each named fragment is dispatched, and
\* there is no error event
FinalizedAsUsual(c) ==
    LET E == events[c]
        tcd == tool_calls_data[c]
        text == Strip(Join(TextDeltas(consumed[c])))
        h == cache[visitor[c]]
    IN /\ ~HasType(E, "error")
       /\ text = <<>> => ~HasType(E, "done") /\ AssistantTurns(c) = {}
       /\ text # <<>> =>
              /\ Count(E, "done") = 1
              /\ E[FirstOf(E, "done")].data = text
              /\ Occurrences(h, mark[c].cache, "assistant", text) = 1
              /\ Occurrences(RowsSince(c), 0, "assistant", text) >= 1
       /\ IsPrefix(Announced(c), NamesUpTo(tcd, Len(tcd)))
       /\ pc[c] = "gen_end" =>
              /\ Announced(c) = NamesUpTo(tcd, Len(tcd))
              /\ NamesOf(EventsOf(E, "tool_result")) = Announced(c)

\* C39: when the provider stream ends without ever delivering a finish
\* signal the round finalizes exactly as on a finish signal: the text
\* accumulated so far is persisted and emitted as done (when non-empty), every
\* accumulated named fragment is dispatched, and no error event is emitted.
C39_EndWithoutFinish ==
    /\ [](\A c \in Conns : Finalizing(c) => FinalizedAsUsual(c))
    /\ [][\A c \in Conns :
             pc[c] = "stream" /\ pc'[c] \notin {"stream", "closed"} /\ NoFinish(c)'
                 /\ nfaults' = nfaults =>
                 pc'[c] = "finalize" /\ events'[c] = events[c]]_vars

\* a stream that carried text and a tool call and then ended without a finish
\* signal: the text was emitted as done and the tool was dispatched
C39_Witness ==
    /\ pc["c1"] = "gen_end"
    /\ Len(consumed["c1"]) = 2
    /\ NoFinish("c1")
    /\ Finalizing("c1")
    /\ HasType(events["c1"], "done")
    /\ Announced("c1") = <<"notify_team">>
    /\ Count(events["c1"], "tool_result") = 1

(* ----------------------- save_lead, a failed commit --------------------- *)
\* the dispatch loop's save_lead has just returned from a call that reached
\* its commit of the Lead
SaveAttempted ==
    /\ call.op = "tool" /\ call.entry = "ws" /\ call.name = "save_lead"
    /\ Get(call.args, "email") \notin {None, <<"">>}

\* C40: if persisting the Lead fails inside save_lead, the call returns
\* {ok: false, error} without raising, the pending change is rolled back, and
\* the Lead store and the conversation's lead link are exactly as they were
\* before the call.
C40_FailedSaveRolledBack ==
    SaveAttempted /\ call.env.lead = "down" =>
        /\ ~call.result.ok /\ call.result.error # ""
        /\ ~call.raised
        /\ leads = call.before.leads
        /\ lead_link = call.before.lead_link

\* the commit failed for a call that would have changed a Lead saved before
C40_Witness ==
    /\ SaveAttempted /\ call.env.lead = "down"
    /\ Len(leads) = 1
    /\ leads[1].f["budget_max"] = None
    /\ Get(call.args, "budget_max") = <<20000>>
    /\ lead_link["A"] = 1

====
